---- MODULE Spec2Model ----
(***************************************************************************)
(* A model of the demo parser under src/src/handlers/sppd/sppd: the        *)
(* session driver (Demo.constructor), the top-level message layer          *)
(* (Message.fromDemo), the packet sub-protocol (NetSvcMessage.fromID),     *)
(* the entity store (SvcPacketEntities, Entity) and the property writer    *)
(* (EntityProperty.setValue) over the bit buffer (DemoBuffer).            *)
(*                                                                         *)
(* The session machine reads its input lazily: every parse step draws the  *)
(* fields it reads from a bounded set, and the cursor advances by the bit  *)
(* widths the code reads.  The blob's length is fixed at the start as the  *)
(* number of messages it holds: the loop test `cursor < bytes.length * 8`  *)
(* passes as long as fewer messages have been read.                        *)
(***************************************************************************)
EXTENDS Integers, Sequences, FiniteSets, TLC

VARIABLES
  events,        \* the hooks handed to the constructor: a subset of Hooks
  blobCount,     \* the number of messages the blob holds
  cursor,        \* demo.buf.cursor, in bits
  messages,      \* demo.messages
  tick,          \* demo.state.tick
  lastTick,      \* the constructor's local lastTick
  entities,      \* demo.state.entities: Null, or [length, at]
  ents,          \* the Entity objects ever allocated, by object id
  eprops,        \* the EntityProperty objects ever allocated, by object id
  baselines,     \* demo.baselines: [length, at], at: tableID -> StaticBaseline
  schema,        \* demo.dataTables / serverClasses / parserClasses: Null or a schema
  stringTables,  \* demo.stringTables: the tables in the order of the Map
  pc,            \* where the driver stands
  result,        \* the value parseAsync was resolved with ("none" before)
  pkt,           \* the packet being parsed: Null or [dataEnd, type, subs]
  pe,            \* the SvcPacketEntities being parsed: Null or its locals
  cmdQueue,      \* the commands still to hand to onCommand for this message
  calls,         \* every hook invocation so far, in order
  finishCalls,   \* the success values onFinish was invoked with
  ctorReturned,  \* whether the constructor has returned to its caller
  stopAsked,     \* whether a hook has returned false
  log,           \* the console.warn lines written so far
  bytes,         \* demo.buf.bytes bit by bit, where a property is rewritten
  target,        \* the EntityProperty SetProperty finds: Null or a property
  setResult,     \* what the last SetProperty call did: returned or threw
  writes,        \* the number of calls made on the buffer so far
  io             \* the last call made on the buffer or the entity: Null or its arguments

vars == <<events, blobCount, cursor, messages, tick, lastTick, entities, ents, eprops,
          baselines, schema, stringTables, pc, result, pkt, pe, cmdQueue,
          calls, finishCalls, ctorReturned, stopAsked, log,
          bytes, target, setResult, writes, io>>

sessionVars == <<events, blobCount, cursor, messages, tick, lastTick, pc, result,
                 pkt, pe, cmdQueue, calls, finishCalls, ctorReturned, stopAsked,
                 schema, stringTables>>

bufVars == <<bytes, target, setResult, writes, io>>

storeVars == <<entities, ents, eprops, baselines>>

\* null, for the fields that hold an object or nothing
Null == [null |-> TRUE]

Hooks == {"onTick", "onCommand", "onFinish"}

(***************************************************************************)
(* Bounds of the model.                                                    *)
(***************************************************************************)
MaxMessages == 3

(***************************************************************************)
(* Bit widths the parsers read.                                            *)
(***************************************************************************)
HeaderBits == (8 * 8) + 32 + 32 + (4 * (260 * 8)) + 32 + 32 + 32 + 32

MsgHeaderBits == 8 + 32 + 8

CmdInfoBits == 32 + (6 * (3 * 32))

PacketPrefixBits == (2 * CmdInfoBits) + 32 + 32 + 32

SubIdBits == 6

NetTickBits == 32 + 16 + 16

\* nextNullTerminatedString: the characters and the terminating zero byte
CStringBits(s) == (Len(s) * 8) + 8

(***************************************************************************)
(* Message type tags of Message.fromDemo.                                  *)
(***************************************************************************)
TSignOn == 1
TPacket == 2
TSyncTick == 3
TConsoleCmd == 4
TUserCmd == 5
TDataTables == 6
TStop == 7
TCustomData == 8
TStringTables == 9

KnownTypes == 1..9

Msg(type, command, subs) == [type |-> type, command |-> command, subs |-> subs]

SimpleMsg(type) == Msg(type, "", <<>>)

(***************************************************************************)
(* Net/Svc message ids of NetSvcMessage.fromID.                            *)
(***************************************************************************)
SNetTick == 4
SNetSetConVar == 6
SSvcPacketEntities == 26

KnownSubIds == 0..33

Sub(id, convars) == [id |-> id, convars |-> convars, updates |-> <<>>]

ConVar(name, value) == [name |-> name, value |-> value]

\* NetSetConVar: a length byte, then two null-terminated strings per convar
RECURSIVE ConVarsBits(_)
ConVarsBits(cs) ==
  IF cs = <<>> THEN 0
  ELSE CStringBits(Head(cs).name) + CStringBits(Head(cs).value) + ConVarsBits(Tail(cs))

\* what a hook may hand back (a promise resolves to one of these as well)
HookResults == {"true", "false", "undefined"}

(***************************************************************************)
(* Demo.constructor: the state after the header is read.                   *)
(***************************************************************************)
InitSession(E) ==
  /\ events \in E
  /\ blobCount \in 0..MaxMessages
  /\ cursor = HeaderBits
  /\ messages = <<>>
  /\ tick = 0
  /\ lastTick = 0
  /\ entities = Null
  /\ ents = <<>>
  /\ eprops = <<>>
  /\ baselines = [length |-> 0, at |-> <<>>]
  /\ schema = Null
  /\ stringTables = <<>>
  /\ pc = "loop"
  /\ result = "none"
  /\ pkt = Null
  /\ pe = Null
  /\ cmdQueue = <<>>
  /\ calls = <<>>
  /\ finishCalls = <<>>
  /\ ctorReturned = FALSE
  /\ stopAsked = FALSE
  /\ log = <<>>

\* the session is modelled by its cursor: no bit of the blob is rewritten
NoRewrite ==
  /\ bytes = <<>>
  /\ target = Null
  /\ setResult = "none"
  /\ writes = 0
  /\ io = Null

Init == InitSession(SUBSET Hooks) /\ NoRewrite

(***************************************************************************)
(* The driver loop of Demo.constructor.                                    *)
(***************************************************************************)
\* a driver that does not wait for the hook it has called
AtLoopHead_unawaited == pc \in {"loop", "awaitTick", "awaitCmd"}

\* line 498 is reached: the driver is not suspended in an await
AtLoopHead == pc = "loop"

\* line 498: `this.buf.cursor < this.buf.bytes.length * 8`
MoreBlob == Len(messages) < blobCount

\* a driver that ignores what the hook hands back
HookStops_ignored(r) == FALSE

\* `success === false`
HookStops(r) == r = "false"

\* a driver that never leaves the loop on a Stop message
IsStop_never(message) == FALSE

\* `message instanceof StopMessage`
IsStop(message) == message.type = TStop

\* `message instanceof PacketMessage` (SignOnMessage extends it)
IsPacket(message) == message.type \in {TPacket, TSignOn}

\* an invocation of a hook, with what the hook can see of the demo: the tick
\* and the number of messages parsed
Call(hook, arg) ==
  [hook |-> hook, arg |-> arg, tick |-> tick, message |-> Len(messages)]

\* lines 518-521: the convars of the first NetSetConVar of the packet
ConVarCommands(message) ==
  LET at == {i \in 1..Len(message.subs) : message.subs[i].id = SNetSetConVar}
  IN  IF at = {} THEN <<>>
      ELSE LET first == CHOOSE i \in at : \A j \in at : i <= j
               cs == message.subs[first].convars
           IN  [k \in 1..Len(cs) |-> cs[k].name \o " " \o cs[k].value]

\* lines 513-524: the commands the message hands to onCommand
CommandsOf(message) ==
  IF "onCommand" \notin events THEN <<>>
  ELSE IF message.type = TConsoleCmd THEN <<message.command>>
  ELSE IF IsPacket(message) THEN ConVarCommands(message)
  ELSE <<>>

\* resolve(v): parseAsync is settled
Settle(v) ==
  /\ pc' = "settled"
  /\ result' = v
  /\ cmdQueue' = <<>>
  /\ UNCHANGED calls

\* the next onCommand invocation for the queue q, or back to the loop test
NextCommand(q) ==
  IF q = <<>>
  THEN /\ pc' = "loop"
       /\ cmdQueue' = <<>>
       /\ UNCHANGED <<calls, result>>
  ELSE /\ pc' = "awaitCmd"
       /\ cmdQueue' = q
       /\ calls' = Append(calls, Call("onCommand", Head(q)))
       /\ UNCHANGED result

\* lines 511-525: after the tick hook
Resume(message) ==
  IF IsStop(message) THEN Settle("true") ELSE NextCommand(CommandsOf(message))

LastMessage == messages[Len(messages)]

\* line 498, the loop test fails: the cursor is at or past the end of the blob
LoopExit ==
  /\ AtLoopHead
  /\ ~MoreBlob
  /\ Settle("true")
  /\ UNCHANGED <<bufVars, log, events, blobCount, cursor, messages, tick, lastTick, storeVars, schema,
                 stringTables, pkt, pe, finishCalls, ctorReturned, stopAsked>>

\* a driver that takes every message for a new tick
TickDue_always == TRUE

\* line 503: `lastTick !== this.state.tick`
TickDue == lastTick # tick

\* lines 503-509: the tick hook is due
AfterParse ==
  /\ pc = "parsed"
  /\ IF TickDue /\ "onTick" \in events
     THEN /\ pc' = "awaitTick"
          /\ calls' = Append(calls, Call("onTick", ""))
          /\ UNCHANGED <<lastTick, result, cmdQueue>>
     ELSE /\ lastTick' = tick
          /\ Resume(LastMessage)
  /\ UNCHANGED <<bufVars, log, events, blobCount, cursor, messages, tick, storeVars, schema,
                 stringTables, pkt, pe, finishCalls, ctorReturned, stopAsked>>

\* lines 505-508: the awaited onTick result is in
OnTickResolve ==
  /\ pc = "awaitTick"
  /\ ctorReturned
  /\ \E r \in HookResults :
       /\ stopAsked' = (stopAsked \/ r = "false")
       /\ IF HookStops(r)
          THEN /\ Settle("false")
               /\ UNCHANGED lastTick
          ELSE /\ lastTick' = tick
               /\ Resume(LastMessage)
  /\ UNCHANGED <<bufVars, log, events, blobCount, cursor, messages, tick, storeVars, schema,
                 stringTables, pkt, pe, finishCalls, ctorReturned>>

\* lines 515-516 and 521-522: the awaited onCommand result is in
OnCommandResolve ==
  /\ pc = "awaitCmd"
  /\ ctorReturned
  /\ \E r \in HookResults :
       /\ stopAsked' = (stopAsked \/ r = "false")
       /\ IF HookStops(r)
          THEN Settle("false")
          ELSE NextCommand(Tail(cmdQueue))
  /\ UNCHANGED <<bufVars, log, events, blobCount, cursor, messages, tick, lastTick, storeVars, schema,
                 stringTables, pkt, pe, finishCalls, ctorReturned>>

\* lines 533-536: the then-callback of parseAsync
Finish ==
  /\ pc = "settled"
  /\ ctorReturned
  /\ pc' = "done"
  /\ finishCalls' = IF "onFinish" \in events
                    THEN Append(finishCalls, result = "true")
                    ELSE finishCalls
  /\ UNCHANGED <<bufVars, log, events, blobCount, cursor, messages, tick, lastTick, storeVars, schema,
                 stringTables, result, pkt, pe, cmdQueue, calls, ctorReturned,
                 stopAsked>>

\* line 538: the constructor returns once the executor has run to its first
\* await, or to its end
ConstructorReturn ==
  /\ ~ctorReturned
  /\ pc \in {"awaitTick", "awaitCmd", "settled", "rejected"}
  /\ ctorReturned' = TRUE
  /\ UNCHANGED <<bufVars, log, events, blobCount, cursor, messages, tick, lastTick, storeVars, schema,
                 stringTables, pc, result, pkt, pe, cmdQueue, calls,
                 finishCalls, stopAsked>>

(***************************************************************************)
(* Message.fromDemo: one action per message type.  Each reads the type     *)
(* byte, the tick and the slot byte first.                                 *)
(***************************************************************************)
\* line 498, the loop test passes: another message starts at the cursor
CanParse == AtLoopHead /\ MoreBlob

\* line 501: the parsed message is pushed; lines 503-525 follow
Push(message) ==
  /\ messages' = Append(messages, message)
  /\ pc' = "parsed"

\* case 3
ParseSyncTick ==
  /\ CanParse
  /\ cursor' = cursor + MsgHeaderBits
  /\ Push(SimpleMsg(TSyncTick))
  /\ UNCHANGED <<bufVars, log, events, blobCount, tick, lastTick, storeVars, schema, stringTables,
                 result, pkt, pe, cmdQueue, calls, finishCalls, ctorReturned,
                 stopAsked>>

\* case 7
ParseStop ==
  /\ CanParse
  /\ cursor' = cursor + MsgHeaderBits
  /\ Push(SimpleMsg(TStop))
  /\ UNCHANGED <<bufVars, log, events, blobCount, tick, lastTick, storeVars, schema, stringTables,
                 result, pkt, pe, cmdQueue, calls, finishCalls, ctorReturned,
                 stopAsked>>

\* the throw reaches the catch of Demo.constructor, line 529: reject(err)
Throw ==
  /\ pc' = "rejected"
  /\ pkt' = Null
  /\ pe' = Null

\* default: a type byte outside 1..9
ParseUnknown(I) ==
  /\ CanParse
  /\ \E type \in I.badTypes : type \notin KnownTypes
  /\ cursor' = cursor + MsgHeaderBits
  /\ Throw
  /\ UNCHANGED <<bufVars, log, events, blobCount, messages, tick, lastTick, storeVars, schema,
                 stringTables, result, cmdQueue, calls, finishCalls,
                 ctorReturned, stopAsked>>

\* case 4: a 32-bit byte count, then that many characters
ParseConsoleCmd(I) ==
  /\ CanParse
  /\ \E command \in I.commands :
       /\ cursor' = cursor + MsgHeaderBits + 32 + (Len(command) * 8)
       /\ Push(Msg(TConsoleCmd, command, <<>>))
  /\ UNCHANGED <<bufVars, log, events, blobCount, tick, lastTick, storeVars, schema, stringTables,
                 result, pkt, pe, cmdQueue, calls, finishCalls, ctorReturned,
                 stopAsked>>

\* a parser that leaves the cursor where its reading stopped
SetCursor_whereStopped(reached, dataEnd) == reached

\* `demo.buf.cursor = dataEnd`, the last statement of a length-prefixed parser
\* and of each of its early returns: wherever the reading stopped, the cursor
\* is left at dataEnd
SetCursor(reached, dataEnd) == dataEnd

\* UserCmdMessage lines 346-368: the bits of the fields that a flag bit
\* announces; weaponSubtype has its own flag bit, read after weaponSelect
UserCmdFieldBits ==
  [commandNumber |-> 32, tickCount |-> 32, viewAnglesX |-> 32, viewAnglesY |-> 32,
   viewAnglesZ |-> 32, movementX |-> 32, movementY |-> 32, movementZ |-> 32,
   buttons |-> 32, impulse |-> 8, weaponSelect |-> 11 + 1, weaponSubtype |-> 6,
   mouseDeltaX |-> 16, mouseDeltaY |-> 16, heldEntity |-> 16,
   heldEntityPortal |-> 16, pendingAcks |-> 16, predictedPortalTeleportations |-> 8]

RECURSIVE FieldBits(_)
FieldBits(present) ==
  IF present = {} THEN 0
  ELSE LET f == CHOOSE f \in present : TRUE
       IN  UserCmdFieldBits[f] + FieldBits(present \ {f})

\* the bits the fields of a UserCmdMessage take: a flag bit for each of the
\* seventeen fields, and the fields that are present
UserCmdBits(present) == 17 + FieldBits(present)

\* case 5: the command number, a byte count, the fields; the cursor is set to
\* dataEnd
ParseUserCmd(I) ==
  /\ CanParse
  /\ \E n \in I.payloads, present \in I.userCmds :
       LET start == cursor + MsgHeaderBits + 32 + 32
       IN  /\ cursor' = SetCursor(start + UserCmdBits(present), start + (n * 8))
           /\ io' = [op |-> "UserCmdMessage", start |-> start, dataLength |-> n * 8,
                     reached |-> start + UserCmdBits(present)]
           /\ Push(SimpleMsg(TUserCmd))
  /\ UNCHANGED <<bytes, target, setResult, writes, log, events, blobCount, tick, lastTick, storeVars,
                 schema, stringTables, result, pkt, pe, cmdQueue, calls, finishCalls,
                 ctorReturned, stopAsked>>

\* case 8: the callback index, a byte count, and that many bytes
ParseCustomData(I) ==
  /\ CanParse
  /\ \E n \in I.payloads :
       /\ cursor' = cursor + MsgHeaderBits + 32 + 32 + (n * 8)
       /\ Push(SimpleMsg(TCustomData))
  /\ UNCHANGED <<bufVars, log, events, blobCount, tick, lastTick, storeVars, schema, stringTables,
                 result, pkt, pe, cmdQueue, calls, finishCalls, ctorReturned,
                 stopAsked>>

\* case 6: the tables are read and flattened; the cursor is set to dataEnd
ParseDataTables(I) ==
  /\ CanParse
  /\ \E n \in I.payloads, s \in I.schemas :
       LET start == cursor + MsgHeaderBits + 32
       IN  /\ cursor' = start + (n * 8)
           /\ io' = [op |-> "DataTablesMessage", start |-> start, dataLength |-> n * 8]
           /\ schema' = s
           /\ Push(SimpleMsg(TDataTables))
  /\ UNCHANGED <<bytes, target, setResult, writes, log, events, blobCount, tick, lastTick, storeVars, stringTables,
                 result, pkt, pe, cmdQueue, calls, finishCalls, ctorReturned,
                 stopAsked>>

(***************************************************************************)
(* PacketMessage (cases 1 and 2) and the Net/Svc messages it holds.        *)
(***************************************************************************)
\* lines 113-123: two CmdInfo, the sequence numbers, the byte count
PacketBegin(I) ==
  /\ CanParse
  /\ \E type \in I.packetTypes, n \in I.packetBytes :
       LET start == cursor + MsgHeaderBits + PacketPrefixBits
       IN  /\ cursor' = start
           /\ pkt' = [type |-> type, dataEnd |-> start + (n * 8), subs |-> <<>>]
  /\ pc' = "packet"
  /\ UNCHANGED <<bufVars, log, events, blobCount, messages, tick, lastTick, storeVars, schema,
                 stringTables, result, pe, cmdQueue, calls, finishCalls,
                 ctorReturned, stopAsked>>

\* line 125
MoreSubs == pc = "packet" /\ cursor < pkt.dataEnd - SubIdBits

\* line 129
PushSub(sub) == pkt' = [pkt EXCEPT !.subs = Append(@, sub)]

\* NetSvcMessage.fromID case 4
SubNetTick(I) ==
  /\ MoreSubs
  /\ \E t \in I.ticks : tick' = t
  /\ cursor' = cursor + SubIdBits + NetTickBits
  /\ PushSub(Sub(SNetTick, <<>>))
  /\ UNCHANGED <<bufVars, log, events, blobCount, messages, lastTick, storeVars, schema,
                 stringTables, pc, result, pe, cmdQueue, calls, finishCalls,
                 ctorReturned, stopAsked>>

\* NetSvcMessage.fromID case 6
SubSetConVar(I) ==
  /\ MoreSubs
  /\ \E cs \in I.convarLists :
       /\ cursor' = cursor + SubIdBits + 8 + ConVarsBits(cs)
       /\ PushSub(Sub(SNetSetConVar, cs))
  /\ UNCHANGED <<bufVars, log, events, blobCount, messages, tick, lastTick, storeVars, schema,
                 stringTables, pc, result, pe, cmdQueue, calls, finishCalls,
                 ctorReturned, stopAsked>>

\* NetSvcMessage.fromID default: a 6-bit id outside 0..33
SubUnknown(I) ==
  /\ MoreSubs
  /\ \E id \in I.badSubIds : id \notin KnownSubIds
  /\ cursor' = cursor + SubIdBits
  /\ Throw
  /\ UNCHANGED <<bufVars, log, events, blobCount, messages, tick, lastTick, storeVars, schema,
                 stringTables, result, cmdQueue, calls, finishCalls,
                 ctorReturned, stopAsked>>

\* lines 125 and 131: the loop is left and the cursor is set to dataEnd
PacketEnd ==
  /\ pc = "packet"
  /\ ~MoreSubs
  /\ cursor' = pkt.dataEnd
  /\ Push(Msg(pkt.type, "", pkt.subs))
  /\ pkt' = Null
  /\ UNCHANGED <<bufVars, log, events, blobCount, tick, lastTick, storeVars, schema, stringTables,
                 result, pe, cmdQueue, calls, finishCalls, ctorReturned,
                 stopAsked>>

(***************************************************************************)
(* Objects.  EntityProperty and Entity objects live in eprops and ents and *)
(* are named by their position there; Hole names no object: an empty slot  *)
(* of an array.                                                            *)
(***************************************************************************)
Hole == 0

Max(a, b) == IF a > b THEN a ELSE b

\* a dense JavaScript array as a sequence: index i is position i + 1
ArrGet(a, i) == IF (i + 1) \in DOMAIN a THEN a[i + 1] ELSE Hole

\* a[i] = v: the array grows, with empty slots, when i is past its end
ArrSet(a, i, v) ==
  [k \in 1..Max(Len(a), i + 1) |-> IF k = i + 1 THEN v ELSE ArrGet(a, k - 1)]

\* new Array(n)
NewArray(n) == [k \in 1..n |-> Hole]

\* a sparse JavaScript array: its length and the slots that are set
Has(s, i) == i \in DOMAIN s.at

SpSet(s, i, v) ==
  [length |-> Max(s.length, i + 1),
   at |-> [k \in (DOMAIN s.at) \cup {i} |-> IF k = i THEN v ELSE s.at[k]]]

\* delete s[i]
SpDelete(s, i) == [s EXCEPT !.at = [k \in (DOMAIN s.at) \ {i} |-> s.at[k]]]

\* a parser that keeps the store it has when a full snapshot arrives
NewEntities_kept == IF entities = Null THEN [length |-> 2048, at |-> <<>>] ELSE entities

\* new Entities(2048)
NewEntities == [length |-> 2048, at |-> <<>>]

\* the store the parsers work on, as one value
Store == [cursor |-> cursor, eprops |-> eprops, ents |-> ents,
          entities |-> entities, baselines |-> baselines, log |-> log]

SetStore(H) ==
  /\ cursor' = H.cursor
  /\ eprops' = H.eprops
  /\ ents' = H.ents
  /\ entities' = H.entities
  /\ baselines' = H.baselines
  /\ log' = H.log

Warn(H, text) == [H EXCEPT !.log = Append(@, text)]

(***************************************************************************)
(* The schema: the flattened property lists of the server classes.         *)
(***************************************************************************)
IntProp == [type |-> "int", bits |-> 8, elements |-> 0]

ArrProp == [type |-> "array", bits |-> 8, elements |-> 2]

\* two server classes; the data table of the second is missing
SchemaA == [nClasses |-> 2, parserClasses |-> (0 :> <<IntProp, ArrProp>>)]

\* DemoBuffer.highestBitIndex
highestBitIndex(i) ==
  IF i = 0 THEN -1 ELSE CHOOSE j \in 0..31 : 2^j <= i /\ i < 2^(j + 1)

(***************************************************************************)
(* EntityProperty                                                          *)
(***************************************************************************)
EProp(index, kind, value, from, size) ==
  [index |-> index, kind |-> kind, value |-> value,
   bufferFrom |-> from, bufferSize |-> size]

\* nextPropertyIndex under the new scheme: the bits read for an index that is
\* d past the last one
PropIndexBits(d) ==
  IF d = 0 THEN 1
  ELSE IF d < 8 THEN 2 + 3
  ELSE IF d < 32 THEN 2 + 5 + 2
  ELSE IF d < 128 THEN 2 + 5 + 2 + 2
  ELSE IF d < 512 THEN 2 + 5 + 2 + 4
  ELSE 2 + 5 + 2 + 7

\* nextPropertyIndex: the 0xFFF that ends the list
PropEndBits == 2 + 5 + 2 + 7

\* decodeInt and decodeArray: the bits a value takes
ValueBits(flatProperty, value) ==
  IF flatProperty.type = "array"
  THEN (highestBitIndex(flatProperty.elements) + 1) + (Len(value) * flatProperty.bits)
  ELSE flatProperty.bits

\* the loop of readProperties: ps is what is still to be read, i the last index
RECURSIVE readFrom(_, _, _, _, _)
readFrom(H, flatProperties, ps, i, properties) ==
  IF ps = <<>>
  THEN [H |-> [H EXCEPT !.cursor = @ + PropEndBits], properties |-> properties]
  ELSE LET p == Head(ps)
           from == H.cursor + PropIndexBits(p.index - i - 1)
       IN  IF p.index >= Len(flatProperties)
           THEN [H |-> Warn([H EXCEPT !.cursor = from],
                            "Overflowed expected entity property count."),
                 properties |-> properties]
           ELSE LET flatProperty == flatProperties[p.index + 1]
                    size == ValueBits(flatProperty, p.value)
                    H1 == [H EXCEPT
                             !.cursor = from + size,
                             !.eprops = Append(@, EProp(p.index, flatProperty.type,
                                                        p.value, from, size))]
                IN  readFrom(H1, flatProperties, Tail(ps), p.index,
                             Append(properties, Len(H1.eprops)))

\* EntityProperty.readProperties: the scheme bit, then the indexed values
readProperties(H, flatProperties, ps) ==
  readFrom([H EXCEPT !.cursor = @ + 1], flatProperties, ps, -1, <<>>)

IsArray(H, id) == H.eprops[id].kind = "array"

\* a copy that hands back the object itself, array and all
copyArrayProperty_same(H, this) == [H |-> H, id |-> this]

\* copyArrayProperty: a new object holding a copy of the array
copyArrayProperty(H, this) ==
  [H |-> [H EXCEPT !.eprops = Append(@, H.eprops[this])],
   id |-> Len(H.eprops) + 1]

\* updateArrayProperty: the other object takes this one's span and a copy of
\* its array
updateArrayProperty(H, this, other) ==
  [H EXCEPT !.eprops[other] =
     [@ EXCEPT !.bufferFrom = H.eprops[this].bufferFrom,
               !.bufferSize = H.eprops[this].bufferSize,
               !.value = H.eprops[this].value]]

(***************************************************************************)
(* StaticBaseline                                                          *)
(***************************************************************************)
StaticBaseline(tableID, entityProperties) ==
  [tableID |-> tableID, entityProperties |-> entityProperties]

SetBaselineProperty(H, id, index, property) ==
  [H EXCEPT !.baselines.at[id].entityProperties = ArrSet(@, index, property)]

\* the loop of updateBaseline
RECURSIVE baselineFrom(_, _, _)
baselineFrom(H, id, entityProperties) ==
  IF entityProperties = <<>> THEN H
  ELSE LET from == Head(entityProperties)
           index == H.eprops[from].index
           to == ArrGet(H.baselines.at[id].entityProperties, index)
           H1 == IF to # Hole /\ IsArray(H, to)
                 THEN updateArrayProperty(H, from, to)
                 ELSE IF IsArray(H, from)
                 THEN LET copy == copyArrayProperty(H, from)
                      IN  SetBaselineProperty(copy.H, id, index, copy.id)
                 ELSE SetBaselineProperty(H, id, index, from)
       IN  baselineFrom(H1, id, Tail(entityProperties))

\* StaticBaseline.updateBaseline
updateBaseline(H, id, entityProperties, flatPropertyCount) ==
  LET H0 == IF Has(H.baselines, id) THEN H
            ELSE [H EXCEPT !.baselines =
                    SpSet(@, id, StaticBaseline(id, NewArray(flatPropertyCount)))]
  IN  baselineFrom(H0, id, entityProperties)

(***************************************************************************)
(* Entity                                                                  *)
(***************************************************************************)
Entity(tableID, properties, serial, index, inPVS) ==
  [tableID |-> tableID, properties |-> properties, serial |-> serial,
   index |-> index, inPVS |-> inPVS]

\* the loop of fromBaseline: array properties are copied, the others shared
RECURSIVE copyFrom(_, _, _)
copyFrom(H, entityProperties, newProperties) ==
  IF entityProperties = <<>> THEN [H |-> H, newProperties |-> newProperties]
  ELSE LET property == Head(entityProperties)
       IN  IF property # Hole /\ IsArray(H, property)
           THEN LET copy == copyArrayProperty(H, property)
                IN  copyFrom(copy.H, Tail(entityProperties),
                             Append(newProperties, copy.id))
           ELSE copyFrom(H, Tail(entityProperties), Append(newProperties, property))

\* Entity.fromBaseline
fromBaseline(H, tableID, serial, index) ==
  LET H0 == IF Has(H.baselines, tableID) THEN H
            ELSE [Warn(H, "Missing baseline, creating blank.") EXCEPT
                    !.baselines = SpSet(@, tableID, StaticBaseline(tableID, <<>>))]
      made == copyFrom(H0, H0.baselines.at[tableID].entityProperties, <<>>)
      entity == Entity(tableID, made.newProperties, serial, index, TRUE)
  IN  [H |-> [made.H EXCEPT !.ents = Append(@, entity)],
       id |-> Len(made.H.ents) + 1]

\* the loop of applyDelta
RECURSIVE deltaFrom(_, _, _)
deltaFrom(H, entity, properties) ==
  IF properties = <<>> THEN H
  ELSE LET property == Head(properties)
           index == H.eprops[property].index
           oldProperty == ArrGet(H.ents[entity].properties, index)
           H1 == IF IsArray(H, property)
                 THEN IF oldProperty = Hole
                      THEN LET copy == copyArrayProperty(H, property)
                           IN  [copy.H EXCEPT !.ents[entity].properties =
                                  ArrSet(@, index, copy.id)]
                      ELSE updateArrayProperty(H, property, oldProperty)
                 ELSE [H EXCEPT !.ents[entity].properties = ArrSet(@, index, property)]
       IN  deltaFrom(H1, entity, Tail(properties))

\* a delta that replaces the whole property list by the listed properties
applyDelta_replaceAll(H, index, properties) ==
  deltaFrom([H EXCEPT !.ents[H.entities.at[index]].properties = <<>>],
            H.entities.at[index], properties)

\* Entity.applyDelta, for a slot that holds an entity
applyDelta(H, index, properties) ==
  deltaFrom(H, H.entities.at[index], properties)

\* Entity.enterPVS, past its two throws
enterPVS(H, tableID, index, serial, isNew, properties) ==
  LET made == fromBaseline(H, tableID, serial, index)
      H0 == IF isNew
            THEN [made.H EXCEPT !.entities = SpSet(@, index, made.id)]
            ELSE H
      entity == H0.entities.at[index]
      H1 == [H0 EXCEPT !.ents[entity].inPVS = TRUE]
  IN  applyDelta(H1, index, properties)

\* a leave that never removes the entity from its slot
leavePVS_flagOnly(H, index, doDelete) ==
  IF Has(H.entities, index)
  THEN [H EXCEPT !.ents[H.entities.at[index]].inPVS = FALSE]
  ELSE H

\* Entity.leavePVS
leavePVS(H, index, doDelete) ==
  IF doDelete THEN [H EXCEPT !.entities = SpDelete(@, index)]
  ELSE IF Has(H.entities, index)
  THEN [H EXCEPT !.ents[H.entities.at[index]].inPVS = FALSE]
  ELSE H

(***************************************************************************)
(* StringTablesMessage (case 9), with one table, and InstanceBaseline.     *)
(***************************************************************************)
\* parserClasses.length: one past the highest table id that is set
ParserClassesLength(sch) ==
  IF DOMAIN sch.parserClasses = {} THEN 0
  ELSE 1 + CHOOSE m \in DOMAIN sch.parserClasses :
               \A k \in DOMAIN sch.parserClasses : k <= m

\* new StringTable(name): maxEntries is not set
NewStringTable(name) ==
  [name |-> name, entries |-> <<>>, userDataSize |-> 0, userDataSizeBits |-> 0]

\* StringTableEntry.fromDemo for a table whose entries carry no parsed data
StringTableEntry(tableName, entryName) ==
  [tableName |-> tableName, entryName |-> entryName]

\* demo.stringTables.get(name): the place of the table, 0 where there is none
TablePlace(tables, name) ==
  IF \E k \in 1..Len(tables) : tables[k].name = name
    THEN CHOOSE k \in 1..Len(tables) : tables[k].name = name
    ELSE 0

\* StringTable.fromDemo lines 277-286: the entries of an instancebaseline
\* table; an entry names a server class and carries its baseline properties
RECURSIVE entriesFrom(_, _)
entriesFrom(H, entries) ==
  IF entries = <<>> THEN [H |-> H, threw |-> FALSE, left |-> <<>>]
  ELSE LET entry == Head(entries)
           data == H.cursor + CStringBits(entry.name) + 1 + 16
           dataEnd == data + (entry.bytes * 8)
           H0 == [H EXCEPT !.cursor = data]
       IN  IF schema = Null
           THEN entriesFrom(Warn([H0 EXCEPT !.cursor = dataEnd],
                                 "Received InstanceBaseline before DataTables."),
                            Tail(entries))
           ELSE IF \/ entry.index < 0
                   \/ entry.index >= ParserClassesLength(schema)
                   \/ entry.index \notin DOMAIN schema.parserClasses
           THEN [H |-> H0, threw |-> TRUE, left |-> entries]
           ELSE LET flatProperties == schema.parserClasses[entry.index]
                    read == readProperties(H0, flatProperties, entry.properties)
                    H1 == updateBaseline(read.H, entry.index, read.properties,
                                         Len(flatProperties))
                IN  entriesFrom([H1 EXCEPT !.cursor = dataEnd], Tail(entries))

\* StringTable.fromDemo lines 265-284: the table of that name, or a new one,
\* takes the entries that were read
pushEntries(tables, name, entries) ==
  LET k == TablePlace(tables, name)
  IN  [tables EXCEPT ![k].entries =
         @ \o [i \in 1..Len(entries) |-> StringTableEntry(name, entries[i].name)]]

\* `demo.stringTables.set(table.name, table)` after StringTable.fromDemo
setTable(tables, name, entries) ==
  pushEntries(IF TablePlace(tables, name) = 0
                THEN Append(tables, NewStringTable(name))
                ELSE tables,
              name, entries)

\* case 9: the tables are read and set; the cursor is set to dataEnd
ParseStringTables(I) ==
  /\ CanParse
  /\ \E n \in I.payloads, table \in I.tables :
       LET start == cursor + MsgHeaderBits + 32
           dataEnd == start + (n * 8)
           first == start + 8 + CStringBits(table.name) + 16
           done == IF table.name = "instancebaseline"
                   THEN entriesFrom([Store EXCEPT !.cursor = first], table.entries)
                   ELSE [H |-> [Store EXCEPT !.cursor = first], threw |-> FALSE,
                         left |-> <<>>]
           read == SubSeq(table.entries, 1, Len(table.entries) - Len(done.left))
       IN  /\ io' = [op |-> "StringTablesMessage", start |-> start,
                     dataLength |-> n * 8, reached |-> done.H.cursor]
           /\ IF done.threw
              THEN /\ SetStore(done.H)
                   /\ Throw
                   /\ stringTables' = IF TablePlace(stringTables, table.name) = 0
                                        THEN stringTables
                                        ELSE pushEntries(stringTables, table.name, read)
                   /\ UNCHANGED messages
              ELSE /\ SetStore([done.H EXCEPT !.cursor = SetCursor(@, dataEnd)])
                   /\ stringTables' = setTable(stringTables, table.name, read)
                   /\ Push(SimpleMsg(TStringTables))
                   /\ UNCHANGED <<pkt, pe>>
  /\ UNCHANGED <<bytes, target, setResult, writes, events, blobCount, tick, lastTick,
                 schema, result, cmdQueue, calls, finishCalls, ctorReturned, stopAsked>>

(***************************************************************************)
(* SvcPacketEntities (NetSvcMessage.fromID case 26).                       *)
(***************************************************************************)
SubPE(updates) == [id |-> SSvcPacketEntities, convars |-> <<>>, updates |-> updates]

Update(type, index, serial, isNew, doDelete, properties) ==
  [type |-> type, index |-> index, serial |-> serial, isNew |-> isNew,
   doDelete |-> doDelete, properties |-> properties]

\* nextBitInt, lines 261-269: four bits, a two-bit selector, and 0, 4, 8 or 28
\* bits more; `ret | x` is a 32-bit signed integer, so that with 28 bits
\* more the value is negative when the last of them is set
nextBitInt(ret, selector, more) ==
  IF selector = 0 THEN ret
  ELSE IF selector \in {1, 2} THEN ret + (more * 16)
  ELSE IF more < 134217728 THEN ret + (more * 16)
  ELSE ((ret + ((more - 134217728) * 16)) - 2147483647) - 1

\* nextBitInt: the bits read for the value v, in its shortest encoding
BitIntBits(v) ==
  IF v < 0 THEN 4 + 2 + 28
  ELSE IF v < 16 THEN 4 + 2
  ELSE IF v < 256 THEN 4 + 2 + 4
  ELSE IF v < 4096 THEN 4 + 2 + 8
  ELSE 4 + 2 + 28

\* lines 539-547: the header, up to and including the updateBaseline bit
PEHeaderBits(isDelta) == 11 + 1 + (IF isDelta THEN 32 ELSE 0) + 1 + 11 + 20 + 1

\* a parser that throws where the constructor returns early
ReturnEarly_throws(H, dataEnd, updates, text) ==
  /\ SetStore(Warn(H, text))
  /\ Throw

\* a constructor that returns early: the cursor is set to dataEnd, and the
\* packet goes on with the next sub-message
ReturnEarly(H, dataEnd, updates, text) ==
  /\ SetStore(Warn([H EXCEPT !.cursor = dataEnd], text))
  /\ pc' = "packet"
  /\ PushSub(SubPE(updates))
  /\ pe' = Null

\* lines 539-568
PEBegin(I) ==
  /\ MoreSubs
  /\ \E isDelta \in BOOLEAN, from \in I.deltaFroms,
        updatedEntries \in I.updateCounts, dataLength \in I.peBits :
       LET start == cursor + SubIdBits + PEHeaderBits(isDelta)
           dataEnd == start + dataLength
           made == IF isDelta THEN entities ELSE NewEntities
       IN  /\ io' = [op |-> "SvcPacketEntities", start |-> start,
                     dataLength |-> dataLength]
           /\ IF schema = Null
              THEN ReturnEarly(Store, dataEnd, <<>>,
                               "Tried to parse SvcPacketEntities before DataTables.")
              ELSE IF isDelta /\ from # 0 /\ from > tick
              THEN ReturnEarly(Store, dataEnd, <<>>,
                               "Received entity delta from the future.")
              ELSE IF made = Null
              THEN ReturnEarly(Store, dataEnd, <<>>,
                               "Received entity delta before a full snapshot.")
              ELSE /\ SetStore([Store EXCEPT !.cursor = start, !.entities = made])
                   /\ pc' = "entities"
                   /\ pe' = [dataEnd |-> dataEnd, isDelta |-> isDelta,
                             updatedEntries |-> updatedEntries, index |-> -1,
                             updates |-> <<>>]
                   /\ UNCHANGED pkt
  /\ UNCHANGED <<bytes, target, setResult, writes, events, blobCount, messages, tick, lastTick, schema,
                 stringTables, result, cmdQueue, calls, finishCalls,
                 ctorReturned, stopAsked>>

\* line 571: another update is due
MoreUpdates == pc = "entities" /\ Len(pe.updates) < pe.updatedEntries

\* line 574
Overflowed(index) == index < 0 \/ index > entities.length

\* line 619 and line 646: the update is applied and kept
Applied(H, update) ==
  /\ SetStore(H)
  /\ pe' = [pe EXCEPT !.index = update.index, !.updates = Append(@, update)]
  /\ UNCHANGED <<pc, pkt>>

\* lines 572-578: the index runs past the store
PEOverflow(I) ==
  /\ MoreUpdates
  /\ \E gap \in I.gaps :
       /\ Overflowed(pe.index + gap + 1)
       /\ ReturnEarly([Store EXCEPT !.cursor = @ + BitIntBits(gap)], pe.dataEnd,
                      pe.updates, "Entity update index overflowed.")
  /\ UNCHANGED <<bufVars, events, blobCount, messages, tick, lastTick, schema,
                 stringTables, result, cmdQueue, calls, finishCalls,
                 ctorReturned, stopAsked>>

\* case 0, lines 582-602
PEDelta(I) ==
  /\ MoreUpdates
  /\ \E gap \in I.gaps, ps \in I.propLists :
       LET index == pe.index + gap + 1
           H == [Store EXCEPT !.cursor = @ + BitIntBits(gap) + 2]
       IN  /\ ~Overflowed(index)
           /\ IF ~Has(entities, index)
              THEN ReturnEarly(H, pe.dataEnd, pe.updates,
                               "Tried to apply delta to non-existent entity.")
              ELSE LET tableID == ents[entities.at[index]].tableID
                   IN  IF tableID \notin DOMAIN schema.parserClasses
                       THEN ReturnEarly(H, pe.dataEnd, pe.updates,
                                        "Missing parser class for entity.")
                       ELSE LET read == readProperties(H, schema.parserClasses[tableID], ps)
                            IN  Applied(applyDelta(read.H, index, read.properties),
                                        Update("delta", index, 0, FALSE, FALSE,
                                               read.properties))
  /\ UNCHANGED <<bufVars, events, blobCount, messages, tick, lastTick, schema,
                 stringTables, result, cmdQueue, calls, finishCalls,
                 ctorReturned, stopAsked>>

\* a parser that takes any occupant of the slot for the entity that enters
IsNew_bySlot(index, serial) == ~Has(entities, index)

\* line 616
IsNew(index, serial) ==
  ~Has(entities, index) \/ ents[entities.at[index]].serial # serial

\* case 2, lines 604-622, and the first throw of Entity.enterPVS
PEEnter(I) ==
  /\ MoreUpdates
  /\ \E gap \in I.gaps, tableID \in I.tableIDs, serial \in I.serials,
        ps \in I.propLists :
       LET index == pe.index + gap + 1
           idBits == highestBitIndex(schema.nClasses) + 1
           H == [Store EXCEPT !.cursor = @ + BitIntBits(gap) + 2 + idBits + 10]
       IN  /\ ~Overflowed(index)
           /\ IF tableID \notin DOMAIN schema.parserClasses
              THEN ReturnEarly(H, pe.dataEnd, pe.updates,
                               "Missing parser class for new entity.")
              ELSE LET isNew == IsNew(index, serial)
                       read == readProperties(H, schema.parserClasses[tableID], ps)
                   IN  IF baselines.length = 0
                       THEN /\ SetStore(read.H)
                            /\ Throw
                       ELSE Applied(enterPVS(read.H, tableID, index, serial, isNew,
                                             read.properties),
                                    Update("enter", index, serial, isNew, FALSE,
                                           read.properties))
  /\ UNCHANGED <<bufVars, events, blobCount, messages, tick, lastTick, schema,
                 stringTables, result, cmdQueue, calls, finishCalls,
                 ctorReturned, stopAsked>>

\* cases 1 and 3, lines 624-638
PELeave(I) ==
  /\ MoreUpdates
  /\ \E gap \in I.gaps, updateType \in {1, 3} :
       LET index == pe.index + gap + 1
           H == [Store EXCEPT !.cursor = @ + BitIntBits(gap) + 2]
       IN  /\ ~Overflowed(index)
           /\ IF ~Has(entities, index)
              THEN ReturnEarly(H, pe.dataEnd, pe.updates,
                               "Tried to delete non-existent entity.")
              ELSE Applied(leavePVS(H, index, updateType = 3),
                           Update("leave", index, 0, FALSE, updateType = 3, <<>>))
  /\ UNCHANGED <<bufVars, events, blobCount, messages, tick, lastTick, schema,
                 stringTables, result, cmdQueue, calls, finishCalls,
                 ctorReturned, stopAsked>>

\* the loop of lines 650-657: the explicit deletions of a delta snapshot
RECURSIVE deletionsFrom(_, _, _)
deletionsFrom(H, updates, indices) ==
  IF indices = <<>> THEN [H |-> H, updates |-> updates]
  ELSE LET index == Head(indices)
       IN  IF ~Has(H.entities, index)
           THEN deletionsFrom(H, updates, Tail(indices))
           ELSE deletionsFrom(leavePVS(H, index, TRUE),
                              Append(updates, Update("leave", index, 0, FALSE, TRUE, <<>>)),
                              Tail(indices))

\* lines 649-660: past the updates
PEEnd(I) ==
  /\ pc = "entities"
  /\ ~MoreUpdates
  /\ \E indices \in (IF pe.isDelta THEN I.deletionLists ELSE {<<>>}) :
       LET done == deletionsFrom(Store, pe.updates, indices)
       IN  /\ SetStore([done.H EXCEPT !.cursor = pe.dataEnd])
           /\ PushSub(SubPE(done.updates))
  /\ pc' = "packet"
  /\ pe' = Null
  /\ UNCHANGED <<bufVars, events, blobCount, messages, tick, lastTick, schema,
                 stringTables, result, cmdQueue, calls, finishCalls,
                 ctorReturned, stopAsked>>

(***************************************************************************)
(* The inputs a run draws from.                                            *)
(***************************************************************************)
DriverInputs ==
  [ badTypes    |-> {0},
    commands    |-> {"+jump"},
    payloads    |-> {1},
    userCmds    |-> {{"tickCount"}},
    schemas     |-> {SchemaA},
    packetTypes |-> {TPacket},
    packetBytes |-> {0, 9},
    badSubIds   |-> {34},
    ticks       |-> {0, 1},
    convarLists |-> { <<ConVar("a", "1")>>,
                      <<ConVar("a", "1"), ConVar("b", "2")>> },
    tables      |-> { [name |-> "userinfo", entries |-> <<>>] } ]

Prop(index, value) == [index |-> index, value |-> value]

BaselineEntry(index, properties) ==
  [name |-> ToString(index), index |-> index, bytes |-> 8, properties |-> properties]

EntityInputs ==
  [ payloads      |-> {16},
    schemas       |-> {SchemaA},
    tables        |-> { [name |-> "instancebaseline",
                         entries |-> <<BaselineEntry(0, <<Prop(0, <<1>>),
                                                          Prop(1, <<1, 1>>)>>)>>],
                        [name |-> "instancebaseline",
                         entries |-> <<BaselineEntry(0, <<Prop(0, <<1>>)>>)>>] },
    packetTypes   |-> {TSignOn},
    packetBytes   |-> {32},
    deltaFroms    |-> {0, 1},
    updateCounts  |-> {0, 1, 2},
    peBits        |-> {160},
    gaps          |-> {0, 2049},
    tableIDs      |-> {0, 1},
    serials       |-> {1, 2},
    propLists     |-> { <<>>, <<Prop(0, <<2>>)>>,
                        <<Prop(0, <<2>>), Prop(1, <<2, 2>>)>> },
    deletionLists |-> { <<>>, <<0>> } ]


(***************************************************************************)
(* The session without entity traffic.                                     *)
(***************************************************************************)
Next ==
  \/ LoopExit
  \/ ParseSyncTick
  \/ ParseStop
  \/ ParseUnknown(DriverInputs)
  \/ ParseConsoleCmd(DriverInputs)
  \/ ParseUserCmd(DriverInputs)
  \/ ParseCustomData(DriverInputs)
  \/ ParseDataTables(DriverInputs)
  \/ ParseStringTables(DriverInputs)
  \/ PacketBegin(DriverInputs)
  \/ SubNetTick(DriverInputs)
  \/ SubSetConVar(DriverInputs)
  \/ SubUnknown(DriverInputs)
  \/ PacketEnd
  \/ AfterParse
  \/ OnTickResolve
  \/ OnCommandResolve
  \/ Finish
  \/ ConstructorReturn

Spec == Init /\ [][Next]_vars

\* the event loop runs every job that is ready, and every hook hands back a result
FairSpec == Spec /\ WF_vars(Next)

(***************************************************************************)
(* Properties of the session driver.                                       *)
(***************************************************************************)
HookPending == pc \in {"awaitTick", "awaitCmd"}

Rejected == pc = "rejected"

\* C1: once a hook has handed back false, no further message is parsed, the
\* cursor stays, no further onTick or onCommand is invoked, and onFinish, when
\* given, is invoked with success = false and with nothing else.
C1_StopOnFalse ==
  /\ [][stopAsked => /\ messages' = messages
                     /\ cursor' = cursor
                     /\ calls' = calls
                     /\ stopAsked']_vars
  /\ [](stopAsked => finishCalls \in {<<>>, <<FALSE>>})
  /\ ((stopAsked /\ "onFinish" \in events) ~> (finishCalls = <<FALSE>>))

C1_Witness ==
  /\ stopAsked
  /\ finishCalls = <<FALSE>>
  /\ Len(messages) < blobCount
  /\ pc = "done"

\* C2: when no hook hands back false and no parser throws, the driver ends
\* having parsed every message of the blob, or every message up to and
\* including the first Stop message; no message is ever parsed after a Stop
\* message; and onFinish, when given, is invoked exactly once, with true.
C2_RunsToEnd ==
  /\ [](\A i \in 1..(Len(messages) - 1) : messages[i].type # TStop)
  /\ [](Len(finishCalls) <= 1)
  /\ <>(\/ stopAsked
        \/ Rejected
        \/ /\ pc = "done"
           /\ \/ Len(messages) = blobCount
              \/ /\ messages # <<>>
                 /\ LastMessage.type = TStop
           /\ "onFinish" \in events => finishCalls = <<TRUE>>)

C2_Witness ==
  /\ pc = "done"
  /\ finishCalls = <<TRUE>>
  /\ Len(messages) = 2
  /\ Len(messages) < blobCount
  /\ LastMessage.type = TStop
  /\ Len(calls) >= 2

\* C3: while the result of a hook is pending, the cursor, the message list,
\* the entity store and the string tables stay as they are.
C3_PausedWhilePending ==
  [][HookPending => /\ cursor' = cursor
                    /\ messages' = messages
                    /\ tick' = tick
                    /\ storeVars' = storeVars
                    /\ schema' = schema
                    /\ stringTables' = stringTables]_vars

C3_Witness ==
  /\ HookPending
  /\ ctorReturned
  /\ Len(messages) < blobCount
  /\ Len(messages) >= 1

\* C9: after a top-level type byte outside 1..9 or a sub-message tag outside
\* 0..33, no further message is parsed and onFinish, when given, is invoked
\* with success = false.
C9_UnknownTagFinishesFalse ==
  /\ [][Rejected => messages' = messages /\ cursor' = cursor]_vars
  /\ ((Rejected /\ "onFinish" \in events) ~> (finishCalls = <<FALSE>>))

C9_Witness ==
  /\ Rejected
  /\ ctorReturned
  /\ "onFinish" \in events
  /\ finishCalls = <<>>

(***************************************************************************)
(* The session with entity traffic and no hooks.                           *)
(***************************************************************************)
InitEntities == InitSession({{}}) /\ NoRewrite

NextEntities ==
  \/ LoopExit
  \/ ParseDataTables(EntityInputs)
  \/ ParseStringTables(EntityInputs)
  \/ PacketBegin(EntityInputs)
  \/ PEBegin(EntityInputs)
  \/ PEOverflow(EntityInputs)
  \/ PEDelta(EntityInputs)
  \/ PEEnter(EntityInputs)
  \/ PELeave(EntityInputs)
  \/ PEEnd(EntityInputs)
  \/ PacketEnd
  \/ AfterParse
  \/ Finish
  \/ ConstructorReturn

SpecEntities == InitEntities /\ [][NextEntities]_vars

(***************************************************************************)
(* Properties of the entity store.                                         *)
(***************************************************************************)
\* the step applies one update of the snapshot and keeps it in its updates
AppliesUpdate ==
  /\ pc = "entities"
  /\ pc' = "entities"
  /\ Len(pe'.updates) = Len(pe.updates) + 1

AppliedUpdate == pe'.updates[Len(pe'.updates)]

\* what Entity.GetProperty reads at property slot k of the object e
ValueOf(E, P, e, k) ==
  LET id == ArrGet(E[e].properties, k)
  IN  IF id = Hole THEN [set |-> FALSE, value |-> <<>>]
      ELSE [set |-> TRUE, value |-> P[id].value]

BaselineValueOf(B, P, tableID, k) ==
  IF ~Has(B, tableID) THEN [set |-> FALSE, value |-> <<>>]
  ELSE LET id == ArrGet(B.at[tableID].entityProperties, k)
       IN  IF id = Hole THEN [set |-> FALSE, value |-> <<>>]
           ELSE [set |-> TRUE, value |-> P[id].value]

PropertySlots == 0..2

\* the property slots an update lists, and the value it lists for a slot
Listed(P, update) == {P[update.properties[n]].index : n \in DOMAIN update.properties}

ListedValue(P, update, k) ==
  LET n == CHOOSE m \in DOMAIN update.properties : P[update.properties[m]].index = k
  IN  [set |-> TRUE, value |-> P[update.properties[n]].value]

\* the entity object e is as it was: its fields, and the value of every slot
Untouched(e) ==
  /\ ents'[e].serial = ents[e].serial
  /\ ents'[e].index = ents[e].index
  /\ ents'[e].inPVS = ents[e].inPVS
  /\ ents'[e].tableID = ents[e].tableID
  /\ \A k \in PropertySlots : ValueOf(ents', eprops', e, k) = ValueOf(ents, eprops, e, k)

\* every slot of the store but i holds the object it held
OtherSlotsKept(i) ==
  /\ (DOMAIN entities'.at) \ {i} = (DOMAIN entities.at) \ {i}
  /\ \A j \in (DOMAIN entities.at) \ {i} : entities'.at[j] = entities.at[j]

\* C4: an enter update for slot i with serial s, once applied: if the slot is
\* empty or holds another serial, a new entity object with serial s, built
\* from the baseline of its class and the update's delta, takes the slot, and
\* no entity object that existed, the previous occupant among them, is
\* changed; if the slot holds serial s, the object stays in place, is in the
\* PVS, and only the listed property slots change.
C4_EnterVisibility ==
  [][(AppliesUpdate /\ AppliedUpdate.type = "enter") =>
       LET u == AppliedUpdate
           i == u.index
           new == entities'.at[i]
       IN  /\ Has(entities', i)
           /\ OtherSlotsKept(i)
           /\ ents'[new].serial = u.serial
           /\ ents'[new].index = i
           /\ ents'[new].inPVS
           /\ IF ~Has(entities, i) \/ ents[entities.at[i]].serial # u.serial
              THEN /\ new = Len(ents) + 1
                   /\ Len(ents') = Len(ents) + 1
                   /\ \A e \in 1..Len(ents) : Untouched(e)
                   /\ \A k \in PropertySlots :
                        ValueOf(ents', eprops', new, k) =
                          IF k \in Listed(eprops', u) THEN ListedValue(eprops', u, k)
                          ELSE BaselineValueOf(baselines, eprops, ents'[new].tableID, k)
              ELSE /\ new = entities.at[i]
                   /\ Len(ents') = Len(ents)
                   /\ ents'[new].tableID = ents[new].tableID
                   /\ \A e \in (1..Len(ents)) \ {new} : Untouched(e)
                   /\ \A k \in PropertySlots :
                        ValueOf(ents', eprops', new, k) =
                          IF k \in Listed(eprops', u) THEN ListedValue(eprops', u, k)
                          ELSE ValueOf(ents, eprops, new, k)]_vars

\* a delta snapshot whose first enter displaced the occupant of its slot and
\* whose second enter found its own serial in place
C4_Witness ==
  /\ pc = "entities"
  /\ pe.isDelta
  /\ Len(pe.updates) = 2
  /\ pe.updates[1].type = "enter"
  /\ pe.updates[1].isNew
  /\ \E e \in 1..Len(ents) :
       /\ e # entities.at[pe.updates[1].index]
       /\ ents[e].index = pe.updates[1].index
       /\ ents[e].serial # pe.updates[1].serial
  /\ pe.updates[2].type = "enter"
  /\ ~pe.updates[2].isNew
  /\ pe.updates[2].properties # <<>>

\* the updates a snapshot holds once the step is taken
UpdatesAfter ==
  IF pc' = "entities" THEN pe'.updates
  ELSE IF pc' = "packet" THEN pkt'.subs[Len(pkt'.subs)].updates
  ELSE pe.updates

\* C5: a full snapshot that arrives when the schema is known starts from an
\* empty store, and while and when it has been read every entity of the store
\* was created by an enter update of that snapshot.
C5_FullSnapshotResets ==
  /\ [][(pc = "packet" /\ pc' = "entities" /\ ~pe'.isDelta) =>
          /\ entities'.at = <<>>
          /\ entities'.length = 2048]_vars
  /\ [][(pc = "entities" /\ ~pe.isDelta) =>
          \A i \in DOMAIN entities'.at :
            \E n \in DOMAIN UpdatesAfter :
              /\ UpdatesAfter[n].type = "enter"
              /\ UpdatesAfter[n].index = i
              /\ UpdatesAfter[n].isNew
              /\ ents'[entities'.at[i]].serial = UpdatesAfter[n].serial]_vars

\* a full snapshot is read to its end after an earlier snapshot had filled
\* two slots, and it has refilled only one of them
C5_Witness ==
  /\ pc = "packet"
  /\ Len(pkt.subs) = 2
  /\ Len(pkt.subs[1].updates) = 2
  /\ pkt.subs[1].updates[2].type = "enter"
  /\ Len(pkt.subs[2].updates) = 1
  /\ pkt.subs[2].updates[1].type = "enter"
  /\ DOMAIN entities.at = {0}
  /\ Len(ents) = 3

\* C6: a delta update, once applied, sets the listed property slots of the
\* entity of its slot to the listed values and leaves every other property
\* slot, every field of the entity, every other entity and the store's slots
\* as they were; with no listed property nothing changes.
C6_DeltaFrame ==
  [][(AppliesUpdate /\ AppliedUpdate.type = "delta") =>
       LET u == AppliedUpdate
           e == entities.at[u.index]
       IN  /\ entities' = entities
           /\ Len(ents') = Len(ents)
           /\ ents'[e].serial = ents[e].serial
           /\ ents'[e].index = ents[e].index
           /\ ents'[e].inPVS = ents[e].inPVS
           /\ ents'[e].tableID = ents[e].tableID
           /\ \A o \in (1..Len(ents)) \ {e} : Untouched(o)
           /\ \A k \in PropertySlots :
                ValueOf(ents', eprops', e, k) =
                  IF k \in Listed(eprops', u) THEN ListedValue(eprops', u, k)
                  ELSE ValueOf(ents, eprops, e, k)
           /\ \A t \in DOMAIN baselines.at, k \in PropertySlots :
                BaselineValueOf(baselines', eprops', t, k) =
                  BaselineValueOf(baselines, eprops, t, k)
           /\ (u.properties = <<>> => Untouched(e))]_vars

\* a delta that lists the first property slot only has been applied to an
\* entity that holds two, after an empty delta
C6_Witness ==
  /\ pc = "entities"
  /\ Len(pe.updates) = 2
  /\ pe.updates[1].type = "delta"
  /\ pe.updates[1].properties = <<>>
  /\ pe.updates[2].type = "delta"
  /\ Len(pe.updates[2].properties) = 1
  /\ ValueOf(ents, eprops, entities.at[1], 0).value = <<2>>
  /\ ValueOf(ents, eprops, entities.at[1], 1).set

\* the entries a delta snapshot's deletion list adds to its updates
Deletions ==
  {UpdatesAfter[n].index : n \in (DOMAIN UpdatesAfter) \ (DOMAIN pe.updates)}

\* C7: a leave update without the delete flag clears inPVS of the entity and
\* leaves it in its slot; a delete update, and every entry of a delta
\* snapshot's deletion list, leaves the slot empty; nothing else changes.
C7_LeaveAndDelete ==
  /\ [][(AppliesUpdate /\ AppliedUpdate.type = "leave") =>
          LET u == AppliedUpdate
              e == entities.at[u.index]
          IN  /\ OtherSlotsKept(u.index)
              /\ Len(ents') = Len(ents)
              /\ \A o \in (1..Len(ents)) \ {e} : Untouched(o)
              /\ IF u.doDelete
                 THEN /\ ~Has(entities', u.index)
                      /\ Untouched(e)
                 ELSE /\ Has(entities', u.index)
                      /\ entities'.at[u.index] = e
                      /\ ents'[e] = [ents[e] EXCEPT !.inPVS = FALSE]]_vars
  /\ [][(pc = "entities" /\ pc' = "packet" /\ Deletions # {}) =>
          /\ DOMAIN entities'.at = (DOMAIN entities.at) \ Deletions
          /\ \A j \in DOMAIN entities'.at : entities'.at[j] = entities.at[j]
          /\ ents' = ents]_vars

\* one entity has left the PVS and stays in its slot, the next slot was
\* emptied by a delete update, and the snapshot is not over
C7_Witness ==
  /\ pc = "entities"
  /\ Len(pe.updates) = 2
  /\ pe.updates[1].type = "leave"
  /\ ~pe.updates[1].doDelete
  /\ Has(entities, 0)
  /\ ~ents[entities.at[0]].inPVS
  /\ pe.updates[2].type = "leave"
  /\ pe.updates[2].doDelete
  /\ ~Has(entities, 1)
  /\ \E e \in 1..Len(ents) : ents[e].index = 1

DeltaToNothing == "Tried to apply delta to non-existent entity."

\* C8: a delta update for a slot that holds no entity throws nothing: the
\* snapshot ends there with the updates applied so far, the store is as it
\* was, the cursor is at the snapshot's declared end, and the packet goes on
\* with its next sub-message.
C8_DesyncIsRecoverable ==
  [][(pc = "entities" /\ log' = Append(log, DeltaToNothing)) =>
       /\ pc' = "packet"
       /\ cursor' = pe.dataEnd
       /\ pkt' = [pkt EXCEPT !.subs = Append(@, SubPE(pe.updates))]
       /\ storeVars' = storeVars
       /\ messages' = messages]_vars

\* the delta that found nothing was the second update of a snapshot that
\* declared two, and the packet has gone on to its next snapshot
C8_Witness ==
  /\ pc = "entities"
  /\ Len(pkt.subs) = 1
  /\ Len(pkt.subs[1].updates) = 1
  /\ log # <<>>
  /\ log[Len(log)] = DeltaToNothing

(***************************************************************************)
(* The byte blob bit by bit: DemoBuffer's readers and writers.  bytes is   *)
(* the sequence of the blob's bits, the bit at address at being            *)
(* bytes[at + 1]; its length is eight times the blob's length in bytes.    *)
(***************************************************************************)
BlobBytes == 14

\* a read past the end of the Uint8Array is undefined, and undefined || 0 is 0
getBit(B, at) == IF at >= 0 /\ at < Len(B) THEN B[at + 1] ELSE 0

RECURSIVE getByteFrom(_, _, _)
getByteFrom(B, at, k) ==
  IF k = 8 THEN 0 ELSE getBit(B, at + k) * 2^k + getByteFrom(B, at, k + 1)

\* a reader that takes the byte the address lies in
getByte_aligned(B, at) == getByteFrom(B, 8 * (at \div 8), 0)

\* the eight bits from at on, the lowest address the least significant
getByte(B, at) == getByteFrom(B, at, 0)

\* the bytes of the bits [from, to), the last byte masked to the bits left
getBitSlice(B, from, to) ==
  LET n == (to - from + 7) \div 8
      bitOffset == (to - from) % 8
      output == [i \in 1..n |-> getByte(B, from + 8 * (i - 1))]
  IN  IF bitOffset # 0 /\ n > 0
        THEN [output EXCEPT ![n] = @ % 2^bitOffset]
        ELSE output

\* A whole JavaScript number beyond 31 bits: hi * 65536 + lo, 0 <= lo < 65536
Double(hi, lo) == [hi |-> hi, lo |-> lo]

ToDouble(n) == Double(n \div 65536, n % 65536)

\* the number itself, where it has no more than 31 bits
IntOf(d) == d.hi * 65536 + d.lo

\* d - n
Minus(d, n) ==
  LET lo == d.lo - (n % 65536)
      hi == d.hi - (n \div 65536)
  IN  IF lo < 0 THEN Double(hi - 1, lo + 65536) ELSE Double(hi, lo)

FirstBytes(output, n) == SubSeq(output, 1, IF Len(output) < n THEN Len(output) ELSE n)

RECURSIVE intOfBytes(_, _)
intOfBytes(output, i) ==
  IF i > Len(output) THEN 0 ELSE output[i] + 256 * intOfBytes(output, i + 1)

\* output = output * 256 + bytes[i], from the last byte down to the first
getInt(B, from, size) ==
  LET output == getBitSlice(B, from, from + size)
  IN  Double(intOfBytes(output, 3), intOfBytes(FirstBytes(output, 2), 1))

\* Numbers are held as ToInt32 leaves them, the form the bitwise operators of
\* the writers work on: a 32-bit word with its top bit set is negative.

\* 1 << n: the shift count is taken modulo 32, and 1 << 31 is negative
ShiftLeftOne(n) == IF n % 32 = 31 THEN (0 - 2147483647) - 1 ELSE 2^(n % 32)

\* the low 31 bits of a 32-bit word
Low31(value) == IF value >= 0 THEN value ELSE (value + 2147483647) + 1

\* whether value & (1 << i) is truthy
HasBit(value, i) ==
  IF i % 32 = 31 THEN value < 0 ELSE (Low31(value) \div 2^(i % 32)) % 2 = 1

\* whether d & (1 << i) is truthy, for a read value d
HasBitOfDouble(d, i) ==
  IF i % 32 < 16
    THEN (d.lo \div 2^(i % 32)) % 2 = 1
    ELSE ((d.hi % 65536) \div 2^((i % 32) - 16)) % 2 = 1

\* DemoBuffer.getSignedInt: value - (1 << size) where value & (1 << (size - 1))
getSignedInt(B, from, size) ==
  LET value == getInt(B, from, size)
  IN  IF HasBitOfDouble(value, size - 1)
        THEN Minus(value, ShiftLeftOne(size))
        ELSE value

\* DemoBuffer.getFloat: the single whose IEEE-754 word the 32 bits are
getFloat(B, from) == [float32 |-> getInt(B, from, 32)]

\* DemoBuffer.getString: one character per byte of the slice
getString(B, from, size) == getBitSlice(B, from, from + size)

\* a plain array, which a write past its end would extend
setBit_grows(B, at, value) ==
  [k \in 1..(IF at + 1 > Len(B) THEN at + 1 ELSE Len(B)) |->
     IF k = at + 1 THEN (IF value THEN 1 ELSE 0)
     ELSE IF k <= Len(B) THEN B[k] ELSE 0]

\* a write past the end of the Uint8Array is dropped; value is a truth value
setBit(B, at, value) ==
  IF at >= 0 /\ at < Len(B)
    THEN [B EXCEPT ![at + 1] = IF value THEN 1 ELSE 0]
    ELSE B

RECURSIVE setIntFrom(_, _, _, _, _)
setIntFrom(B, from, size, value, i) ==
  IF i >= size THEN B
  ELSE setIntFrom(setBit(B, from + i, HasBit(value, i)), from, size, value, i + 1)

setInt(B, from, size, value) == setIntFrom(B, from, size, value, 0)

\* (1 << size) + value as ToInt32 leaves it: -2^31 + value wraps to 2^31 + value
PlusShift(size, value) ==
  IF size % 32 = 31
    THEN (value + 2147483647) + 1
    ELSE ShiftLeftOne(size) + value

setSignedInt(B, from, size, value) ==
  setInt(B, from, size, IF value < 0 THEN PlusShift(size, value) ELSE value)

\* DataView.setFloat32 then getUint32: the IEEE-754 single of the numbers
\* written, 0xC0400000 for -3 being the word 3225419776 - 2^32
Float32Bits(value) ==
  CASE value = 0 -> 0
    [] value = 1 -> 1065353216
    [] value = -3 -> 0 - 1069547520
    [] value = 40 -> 1109393408

setFloat(B, from, value) == setInt(B, from, 32, Float32Bits(value))

(***************************************************************************)
(* EntityProperty: the decoders, as far as they move the cursor, and the   *)
(* setters.  A property definition is [name, type, flags, bits, low,       *)
(* high]; numbers written are whole numbers.                               *)
(***************************************************************************)
hasFlag(baseProperty, flag) == flag \in baseProperty.flags

Abs(value) == IF value < 0 THEN 0 - value ELSE value

\* a fraction n / d, the value of a scaled float field
Q(n, d) == [n |-> n, d |-> d]

\* n / d with its sign bit applied
Signed(sign, n, d) == IF sign = 1 THEN Q(0 - n, d) ELSE Q(n, d)

Decoded(value, after) == [value |-> value, cursor |-> after]

\* EntityProperty.decodeInt: the value read and the cursor after it
decodeInt(B, baseProperty, from) ==
  IF hasFlag(baseProperty, "Unsigned")
    THEN Decoded(getInt(B, from, baseProperty.bits), from + baseProperty.bits)
    ELSE Decoded(getSignedInt(B, from, baseProperty.bits), from + baseProperty.bits)

\* lines 719-721: the number low + (high - low) * (dwInterp / divisor), the
\* divisor being (1 << bits) - 1, a whole number that may be 0 or negative
Interpolated(low, high, dwInterp, divisor) ==
  [low |-> low, high |-> high, dwInterp |-> dwInterp, divisor |-> divisor]

\* EntityProperty.decodeFloat: the value read and the cursor after it
decodeFloat(B, baseProperty, from) ==
  IF hasFlag(baseProperty, "Coord") THEN
    LET hasInt == getBit(B, from) = 1
        hasFrac == getBit(B, from + 1) = 1
        sign == getBit(B, from + 2)
        whole == IF hasInt THEN IntOf(getInt(B, from + 3, 14)) + 1 ELSE 0
        afterInt == from + 3 + (IF hasInt THEN 14 ELSE 0)
        frac == IF hasFrac THEN IntOf(getInt(B, afterInt, 5)) ELSE 0
    IN  IF hasInt \/ hasFrac
          THEN Decoded(Signed(sign, whole * ShiftLeftOne(5) + frac, ShiftLeftOne(5)),
                       afterInt + (IF hasFrac THEN 5 ELSE 0))
          ELSE Decoded(Q(0, 1), from + 2)
  ELSE IF \/ hasFlag(baseProperty, "CoordMp")
          \/ hasFlag(baseProperty, "CoordMpLp")
          \/ hasFlag(baseProperty, "CoordMpInt") THEN
    LET inBounds == getBit(B, from) = 1
        intBits == IF inBounds THEN 11 ELSE 14
        flagged == getBit(B, from + 1) = 1
        sign == getBit(B, from + 2)
        whole == IntOf(getInt(B, from + 3, intBits)) + 1
        lp == hasFlag(baseProperty, "CoordMpLp")
        precision == IF lp THEN 3 ELSE 5
        afterInt == from + 3 + (IF flagged THEN intBits ELSE 0)
        fractVal == IntOf(getInt(B, afterInt, precision))
        \* intVal is the bit read, 0, where no integer part follows
        intVal == IF flagged THEN whole ELSE 0
    IN  IF hasFlag(baseProperty, "CoordMpInt")
          THEN IF flagged
                 THEN Decoded(Signed(sign, whole, 1), from + 3 + intBits)
                 ELSE Decoded(Q(0, 1), from + 2)
          ELSE Decoded(Signed(sign, intVal * ShiftLeftOne(precision) + fractVal,
                              ShiftLeftOne(precision)),
                       afterInt + precision)
  ELSE IF hasFlag(baseProperty, "NoScale") THEN
    Decoded(getFloat(B, from), from + 32)
  ELSE IF hasFlag(baseProperty, "Normal") THEN
    Decoded(Signed(getBit(B, from), IntOf(getInt(B, from + 1, 11)),
                   ShiftLeftOne(11) - 1),
            from + 12)
  ELSE IF \/ hasFlag(baseProperty, "CellCoord")
          \/ hasFlag(baseProperty, "CellCoordLp")
          \/ hasFlag(baseProperty, "CellCoordInt") THEN
    LET integer == IntOf(getInt(B, from, baseProperty.bits))
        precision == IF hasFlag(baseProperty, "CellCoordLp") THEN 3 ELSE 5
        fraction == IntOf(getInt(B, from + baseProperty.bits, precision))
    IN  IF hasFlag(baseProperty, "CellCoordInt")
          THEN Decoded(Q(integer, 1), from + baseProperty.bits)
          ELSE Decoded(Q(integer * ShiftLeftOne(precision) + fraction,
                         ShiftLeftOne(precision)),
                       from + baseProperty.bits + precision)
  ELSE
    LET dwInterp == getInt(B, from, baseProperty.bits)
    IN  Decoded(Interpolated(baseProperty.low, baseProperty.high, dwInterp,
                             Minus(ToDouble(ShiftLeftOne(baseProperty.bits)), 1)),
                from + baseProperty.bits)

\* EntityProperty.decodeVector3; the z of a normal is the root of 1 - x*x - y*y
decodeVector3(B, baseProperty, from) ==
  LET x == decodeFloat(B, baseProperty, from)
      y == decodeFloat(B, baseProperty, x.cursor)
      z == decodeFloat(B, baseProperty, y.cursor)
  IN  IF hasFlag(baseProperty, "Normal")
        THEN Decoded([x |-> x.value, y |-> y.value,
                      z |-> [rootOf |-> <<x.value, y.value>>,
                             sign |-> getBit(B, y.cursor)]],
                     y.cursor + 1)
        ELSE Decoded([x |-> x.value, y |-> y.value, z |-> z.value], z.cursor)

\* EntityProperty.decodeVector2; the z of a new Vector is 0
decodeVector2(B, baseProperty, from) ==
  LET x == decodeFloat(B, baseProperty, from)
      y == decodeFloat(B, baseProperty, x.cursor)
  IN  Decoded([x |-> x.value, y |-> y.value, z |-> Q(0, 1)], y.cursor)

\* EntityProperty.decodeString: a 9-bit length, then that many characters
decodeString(B, baseProperty, from) ==
  LET length == IntOf(getInt(B, from, 9))
  IN  Decoded(getString(B, from + 9, length * 8), from + 9 + length * 8)

\* EntityProperty.fromDemo: the property with its value and the bit-span its
\* decode consumed
fromDemo(B, from, baseProperty) ==
  LET read ==
        CASE baseProperty.type = "Int" -> decodeInt(B, baseProperty, from)
          [] baseProperty.type = "Float" -> decodeFloat(B, baseProperty, from)
          [] baseProperty.type = "Vector3" -> decodeVector3(B, baseProperty, from)
          [] baseProperty.type = "Vector2" -> decodeVector2(B, baseProperty, from)
          [] baseProperty.type = "String" -> decodeString(B, baseProperty, from)
  IN  [property |-> baseProperty, bufferFrom |-> from,
       bufferSize |-> read.cursor - from, value |-> read.value]

Wrote(B, n) == [buf |-> B, bits |-> n]

\* EntityProperty.setFromInt: the buffer after the write and the bits covered
setFromInt(B, T, value, localOffset) ==
  IF hasFlag(T.property, "Unsigned")
    THEN Wrote(setInt(B, T.bufferFrom + localOffset, T.bufferSize, value),
               T.bufferSize)
    ELSE Wrote(setSignedInt(B, T.bufferFrom + localOffset, T.bufferSize, value),
               T.bufferSize)

\* a setter that takes an integer part to follow where the value has one
hasInteger_ofValue(B, value, at) == Abs(value) >= 1

\* line 840: whether an integer part follows is read from the buffer
hasInteger(B, value, at) == getBit(B, at) = 1

\* EntityProperty.setFromFloat: the layout bits are read back from the buffer
setFromFloat(B, T, value, localOffset) ==
  LET baseProperty == T.property
      absValue == Abs(value)
      cursorStart == T.bufferFrom + localOffset
  IN
  IF hasFlag(baseProperty, "Coord") THEN
    LET hasInt == hasInteger(B, value, cursorStart)
        hasFrac == getBit(B, cursorStart + 1) = 1
        signed == setBit(B, cursorStart + 2, value < 0)
        withInt == IF hasInt
                     THEN setInt(signed, cursorStart + 3, 14, Max(absValue - 1, 0))
                     ELSE signed
        cursorAt == cursorStart + 3 + (IF hasInt THEN 14 ELSE 0)
        withFrac == IF hasFrac
                      THEN setInt(withInt, cursorAt, 5, absValue * ShiftLeftOne(5))
                      ELSE withInt
    IN  IF ~hasInt /\ ~hasFrac
          THEN Wrote(B, 2)
          ELSE Wrote(withFrac, cursorAt + (IF hasFrac THEN 5 ELSE 0) - cursorStart)
  ELSE IF \/ hasFlag(baseProperty, "CoordMp")
          \/ hasFlag(baseProperty, "CoordMpLp")
          \/ hasFlag(baseProperty, "CoordMpInt") THEN
    LET isInt == hasFlag(baseProperty, "CoordMpInt")
        isLP == hasFlag(baseProperty, "CoordMpLp")
        precision == IF isLP THEN 3 ELSE 5
        intBits == IF getBit(B, cursorStart) = 1 THEN 11 ELSE 14
        flagged == getBit(B, cursorStart + 1) = 1
        signed == setBit(B, cursorStart + 2, value < 0)
        withInt == setInt(signed, cursorStart + 3, intBits, Max(0, absValue - 1))
    IN  IF isInt
          THEN IF flagged THEN Wrote(withInt, 3 + intBits) ELSE Wrote(B, 2)
          ELSE LET cursorAt == cursorStart + 3 + (IF flagged THEN intBits ELSE 0)
                   \* (absValue % 1) / (1 << precision) of a whole number
                   fraction == 0
               IN  Wrote(setInt(IF flagged THEN withInt ELSE signed,
                                cursorAt, precision, fraction),
                         cursorAt + precision - cursorStart)
  ELSE IF hasFlag(baseProperty, "NoScale") THEN
    Wrote(setFloat(B, cursorStart, value), 32)
  ELSE IF hasFlag(baseProperty, "Normal") THEN
    Wrote(setInt(setBit(B, cursorStart, value < 0), cursorStart + 1, 11,
                 absValue * (ShiftLeftOne(11) - 1)),
          12)
  ELSE IF \/ hasFlag(baseProperty, "CellCoord")
          \/ hasFlag(baseProperty, "CellCoordLp")
          \/ hasFlag(baseProperty, "CellCoordInt") THEN
    LET isInt == hasFlag(baseProperty, "CellCoordInt")
        isLP == hasFlag(baseProperty, "CellCoordLp")
        precision == IF isLP THEN 3 ELSE 5
        whole == setInt(B, cursorStart, baseProperty.bits, absValue)
    IN  IF isInt
          THEN Wrote(whole, baseProperty.bits)
          ELSE Wrote(setInt(whole, cursorStart + baseProperty.bits, precision, 0),
                     baseProperty.bits + precision)
  ELSE
    LET high == baseProperty.high
        low == baseProperty.low
        bits == baseProperty.bits
        \* Math.max(0, (value - low) / (high - low)) * ((1 << bits) - 1), which
        \* the bitwise & of setInt truncates to a whole number
        dwInterp == IF value > low
                      THEN ((value - low) * (ShiftLeftOne(bits) - 1)) \div (high - low)
                      ELSE 0
    IN  Wrote(setInt(B, cursorStart, bits, dwInterp), bits)

\* EntityProperty.setFromVector
setFromVector(B, T, vector, localOffset) ==
  LET baseProperty == T.property
      cursorStart == T.bufferFrom + localOffset
      x == setFromFloat(B, T, vector.x, 0)
      afterX == cursorStart + x.bits
      y == setFromFloat(x.buf, T, vector.y, afterX - cursorStart)
      afterY == afterX + y.bits
      z == setFromFloat(y.buf, T, vector.z, afterY - cursorStart)
  IN  IF baseProperty.type = "Vector2"
        THEN Wrote(y.buf, afterY - cursorStart)
      ELSE IF hasFlag(baseProperty, "Normal")
        THEN Wrote(setBit(y.buf, afterY, vector.z < 0), afterY + 1 - cursorStart)
      ELSE Wrote(z.buf, afterY + z.bits - cursorStart)

\* value.charCodeAt(i) || 0
charCodeAt(value, i) == IF i < Len(value) THEN value[i + 1] ELSE 0

RECURSIVE setCharsFrom(_, _, _, _, _)
setCharsFrom(B, start, length, value, i) ==
  IF i >= length THEN B
  ELSE setCharsFrom(setInt(B, 9 + i * 8, 8, charCodeAt(value, i)),
                    start, length, value, i + 1)

\* EntityProperty.setFromString: the length field of the buffer is kept
setFromString(B, T, value, localOffset) ==
  LET start == T.bufferFrom + localOffset
      length == IntOf(getInt(B, start, 9))
  IN  Wrote(setCharsFrom(B, start, length, value, 0), length * 8 + 9)

\* the values a caller hands to SetProperty
Number(n) == [kind |-> "number", n |-> n]
Vector(x, y, z) == [kind |-> "Vector", x |-> x, y |-> y, z |-> z]
String(chars) == [kind |-> "string", chars |-> chars]

Returned(B, T) == [buf |-> B, thrown |-> FALSE, self |-> T]

\* a setter that also stores the value written in the property
setValue_remembers(B, T, value) ==
  [buf |-> B, thrown |-> FALSE, self |-> [T EXCEPT !.value = value]]

\* EntityProperty.setValue: the buffer and the property after it, or that it
\* threw; what the setters return is assigned to the parameter, not to the
\* property
setValue(B, T, value) ==
  LET type == T.property.type
  IN  IF type = "Int" /\ value.kind = "number"
        THEN Returned(setFromInt(B, T, value.n, 0).buf, T)
      ELSE IF type = "Float" /\ value.kind = "number"
        THEN Returned(setFromFloat(B, T, value.n, 0).buf, T)
      ELSE IF type \in {"Vector2", "Vector3"} /\ value.kind = "Vector"
        THEN Returned(setFromVector(B, T, value, 0).buf, T)
      ELSE IF type = "String" /\ value.kind = "string"
        THEN Returned(setFromString(B, T, value.chars, 0).buf, T)
      ELSE [buf |-> B, thrown |-> TRUE, self |-> T]

(***************************************************************************)
(* Entity.SetProperty on an entity of the store whose one property is      *)
(* target, decoded from the blob at a recorded bit-span.                   *)
(***************************************************************************)
MaxWrites == 2

\* an entity on which every name finds a property
Found_always(name) == TRUE

\* properties.find(p => p && p.property.name === name)
Found(name) == target # Null /\ target.property.name = name

SetProperty(I) ==
  \E name \in {target.property.name} \cup I.missing, value \in I.values :
    /\ target # Null
    /\ writes < MaxWrites
    /\ writes' = writes + 1
    /\ io' = [op |-> "SetProperty", name |-> name, value |-> value]
    /\ IF ~Found(name)
         THEN /\ log' = Append(log, "Property does not exist on entity.")
              /\ setResult' = "false"
              /\ UNCHANGED <<bytes, target>>
         ELSE LET wrote == setValue(bytes, target, value)
              IN  /\ bytes' = wrote.buf
                  /\ target' = wrote.self
                  /\ setResult' = IF wrote.thrown THEN "thrown" ELSE "true"
                  /\ UNCHANGED log
    /\ UNCHANGED <<sessionVars, storeVars>>

\* a blob of one bit value with the leading bits of the property laid over it
Blob(fill, from, lead) ==
  [at \in 1..(8 * BlobBytes) |->
     IF at - 1 >= from /\ at - 1 < from + Len(lead) THEN lead[at - from] ELSE fill]

Definition(name, type, flags, bits, low, high) ==
  [name |-> name, type |-> type, flags |-> flags, bits |-> bits,
   low |-> low, high |-> high]

FloatFlags == {{"Coord"}, {"CoordMp"}, {"CoordMpLp"}, {"CoordMpInt"}, {"NoScale"},
               {"Normal"}, {"CellCoord"}, {"CellCoordLp"}, {"CellCoordInt"}, {},
               {"CoordMpInt", "Normal"}, {"NoScale", "CellCoord"}}

\* the in-band layout bits a float or vector starts with, and string lengths
Leads(baseProperty) ==
  IF baseProperty.type = "String"
    THEN {<<0, 0, 0, 0, 0, 0, 0, 0, 0>>, <<1, 0, 0, 0, 0, 0, 0, 0, 0>>,
          <<0, 1, 0, 0, 0, 0, 0, 0, 0>>}
  ELSE IF baseProperty.type = "Int"
    THEN {<<>>}
  ELSE {<<0, 0, 0>>, <<1, 0, 0>>, <<0, 1, 1>>, <<1, 1, 0>>}

BufferInputs ==
  [missing |-> {"m_nMissing"},
   values |-> {Number(0), Number(1), Number(-3), Number(40),
               Vector(1, -3, 0), Vector(0, 40, -3),
               String(<<>>), String(<<65>>), String(<<65, 66, 67>>)},
   fills |-> {0, 1},
   offsets |-> {40, 43},
   properties |->
     {Definition("m_iHealth", "Int", {"Unsigned"}, 5, 0, 0),
      Definition("m_iHealth", "Int", {}, 5, 0, 0),
      Definition("m_szName", "String", {}, 0, 0, 0),
      Definition("m_vecOrigin", "Vector3", {"Coord"}, 0, 0, 0),
      Definition("m_vecOrigin", "Vector3", {"Normal"}, 0, 0, 0),
      Definition("m_vecOrigin", "Vector3", {}, 3, 0, 8),
      Definition("m_vecOrigin", "Vector2", {"Coord"}, 0, 0, 0),
      Definition("m_vecOrigin", "Vector2", {"CellCoord"}, 4, 0, 0)}
     \cup {Definition("m_flSpeed", "Float", flags, 3, 0, 8) : flags \in FloatFlags}]

InitBuffer ==
  /\ InitSession({{}})
  /\ \E fill \in BufferInputs.fills, from \in BufferInputs.offsets,
        baseProperty \in BufferInputs.properties :
       \E lead \in Leads(baseProperty) :
         /\ bytes = Blob(fill, from, lead)
         /\ target = fromDemo(Blob(fill, from, lead), from, baseProperty)
  /\ setResult = "none"
  /\ writes = 0
  /\ io = Null

NextBuffer == SetProperty(BufferInputs)

SpecBuffer == InitBuffer /\ [][NextBuffer]_vars

InSpan(at) == at >= target.bufferFrom /\ at < target.bufferFrom + target.bufferSize

\* C10: SetProperty on a property decoded at [bufferFrom, bufferFrom + bufferSize)
\* changes no bit of the blob outside that span, whatever the property's type
\* (int, float, 2D/3D vector, string) and whatever the value written.
C10_WritesStayInSpan ==
  [][\A at \in 0..(8 * BlobBytes - 1) :
       ~InSpan(at) => getBit(bytes', at) = getBit(bytes, at)]_vars

\* a string of one or more characters has been written over a non-empty span
C10_Witness ==
  /\ target # Null
  /\ target.property.type = "String"
  /\ target.bufferSize > 9
  /\ setResult = "true"

\* C10, numbers and vectors: a SetProperty on an int, float or vector property
\* changes no bit outside the span, and one on a string property changes no
\* bit outside [9, 9 + 8 * length), length being the string's 9-bit length field.
C10_NumbersStayInSpan ==
  [][\A at \in 0..(8 * BlobBytes - 1) :
       getBit(bytes', at) # getBit(bytes, at) =>
         IF target.property.type = "String"
           THEN at >= 9 /\ at < 9 + 8 * IntOf(getInt(bytes, target.bufferFrom, 9))
           ELSE InSpan(at)]_vars

\* Entity.GetProperty on the entity whose one property is target
GetProperty(name) == IF Found(name) THEN target.value ELSE Null

PropertyNames == {"m_iHealth", "m_flSpeed", "m_vecOrigin", "m_szName", "m_nMissing"}

\* C11: a SetProperty call that returns true changes neither what GetProperty
\* returns for any name nor the entity store: the entities, the property
\* values and the recorded bit-spans stay as they are.
C11_MemoryUntouched ==
  [][(writes' = writes + 1 /\ setResult' = "true") =>
       /\ \A name \in PropertyNames : GetProperty(name)' = GetProperty(name)
       /\ target' = target
       /\ storeVars' = storeVars]_vars

\* an int was written and the blob no longer holds the value the property has
C11_Witness ==
  /\ target # Null
  /\ target.property.type = "Int"
  /\ hasFlag(target.property, "Unsigned")
  /\ setResult = "true"
  /\ getInt(bytes, target.bufferFrom, target.bufferSize) # target.value
  /\ GetProperty("m_iHealth") = target.value

\* the step is a call of Entity.SetProperty
SetPropertyCall == writes' = writes + 1 /\ io'.op = "SetProperty"

\* the entity holds a value under the name
HasValue(name) == name = target.property.name

\* C12: SetProperty naming a property that has no value on the entity returns
\* false and leaves the blob as it is, and it returns true only for a name
\* that has a value, after the setter of the property has run.
C12_MissingPropertyReturnsFalse ==
  [][SetPropertyCall =>
       /\ ~HasValue(io'.name) => (setResult' = "false" /\ bytes' = bytes)
       /\ setResult' = "true" =>
            /\ HasValue(io'.name)
            /\ bytes' = setValue(bytes, target, io'.value).buf]_vars

\* a call has named a property the entity does not have
C12_Witness ==
  /\ io # Null
  /\ io.op = "SetProperty"
  /\ io.name = "m_nMissing"
  /\ setResult = "false"
  /\ Len(log) = 1

\* the value handed to SetProperty has the shape the property's type takes
RightShape(type, value) ==
  \/ type \in {"Int", "Float"} /\ value.kind = "number"
  \/ type \in {"Vector2", "Vector3"} /\ value.kind = "Vector"
  \/ type = "String" /\ value.kind = "string"

\* C13: SetProperty with a value of the wrong shape for the property's type
\* returns false to its caller, throws nothing and leaves the blob as it is.
C13_WrongShapeReturnsFalse ==
  [][(SetPropertyCall /\ HasValue(io'.name)
        /\ ~RightShape(target.property.type, io'.value)) =>
       (setResult' = "false" /\ bytes' = bytes)]_vars

\* a string was handed to an int property and the call threw
C13_Witness ==
  /\ io # Null
  /\ io.op = "SetProperty"
  /\ Found(io.name)
  /\ target.property.type = "Int"
  /\ io.value.kind = "string"
  /\ setResult = "thrown"

\* C13, as the code has it: a value of the wrong shape makes SetProperty throw,
\* with the blob and the property left as they are.
C13_WrongShapeThrows ==
  [][(SetPropertyCall /\ HasValue(io'.name)
        /\ ~RightShape(target.property.type, io'.value)) =>
       (setResult' = "thrown" /\ bytes' = bytes /\ target' = target)]_vars

(***************************************************************************)
(* DemoBuffer called directly: the writers patch the blob, getInt and      *)
(* getSignedInt read a field back.  io holds the call and what it          *)
(* returned; a number written is drawn as the JavaScript number it is and  *)
(* reaches the bitwise operators of setInt as ToInt32 leaves it.           *)
(***************************************************************************)
MaxPatches == 1

\* ToInt32 of a whole number given as hi * 65536 + lo
ToInt32(d) ==
  LET h == d.hi % 65536
  IN  (IF h >= 32768 THEN h - 65536 ELSE h) * 65536 + d.lo

\* the number with the w low bits set: 2^w - 1
AllOnes(w) ==
  IF w <= 16 THEN Double(0, 2^w - 1) ELSE Double(2^(w - 16) - 1, 65535)

\* 2^(w-1): the top bit of a w-bit field
TopBit(w) == IF w <= 16 THEN Double(0, 2^(w - 1)) ELSE Double(2^(w - 17), 0)

\* the least number of w bits: -2^(w-1)
Least(w) == IF w = 32 THEN (0 - 2147483647) - 1 ELSE 0 - 2^(w - 1)

\* one past the last bit of the blob
End == 8 * BlobBytes

Field(from, size) == [from |-> from, size |-> size]

WordInputs ==
  [fills |-> {0, 1},
   fields |-> {Field(3, size) : size \in 1..32}
                \cup {Field(8, 8), Field(8, 32)}
                \cup {Field(End - 8, 16), Field(End - 3, 5), Field(End, 8)},
   bits |-> {7, End - 1, End, End + 2},
   floats |-> {1, -3}]

Patch(B, call) ==
  /\ writes < MaxPatches
  /\ writes' = writes + 1
  /\ bytes' = B
  /\ io' = call
  /\ UNCHANGED <<target, setResult, log, sessionVars, storeVars>>

Answer(call) ==
  /\ io' = call
  /\ UNCHANGED <<bytes, writes, target, setResult, log, sessionVars, storeVars>>

\* DemoBuffer.setBit
SetBit(I) ==
  \E at \in I.bits, value \in {0, 1} :
    Patch(setBit(bytes, at, value = 1),
          [op |-> "setBit", from |-> at, size |-> 1, value |-> ToDouble(value)])

\* DemoBuffer.setInt with a value of 0 .. 2^size - 1
SetInt(I) ==
  \E f \in I.fields : \E value \in {AllOnes(f.size), TopBit(f.size)} :
    Patch(setInt(bytes, f.from, f.size, ToInt32(value)),
          [op |-> "setInt", from |-> f.from, size |-> f.size, value |-> value])

\* DemoBuffer.setSignedInt with a value of -2^(size-1) .. -1
SetSignedInt(I) ==
  \E f \in I.fields : \E value \in {-1, Least(f.size)} :
    Patch(setSignedInt(bytes, f.from, f.size, value),
          [op |-> "setSignedInt", from |-> f.from, size |-> f.size,
           value |-> ToDouble(value)])

\* DemoBuffer.setFloat
SetFloat(I) ==
  \E f \in I.fields, value \in I.floats :
    /\ f.size = 32 \/ f.from >= End - 8
    /\ Patch(setFloat(bytes, f.from, value),
             [op |-> "setFloat", from |-> f.from, size |-> 32,
              value |-> ToDouble(value)])

\* the field the last call wrote
Written == IF io = Null THEN {} ELSE {Field(io.from, io.size)}

\* DemoBuffer.getInt
GetInt(I) ==
  \E f \in Written \cup {Field(3, 32), Field(End - 8, 16)} :
    Answer([op |-> "getInt", from |-> f.from, size |-> f.size,
            value |-> getInt(bytes, f.from, f.size)])

\* DemoBuffer.getSignedInt
GetSignedInt(I) ==
  \E f \in Written \cup {Field(3, 32), Field(End - 8, 16)} :
    Answer([op |-> "getSignedInt", from |-> f.from, size |-> f.size,
            value |-> getSignedInt(bytes, f.from, f.size)])

InitWords ==
  /\ InitSession({{}})
  /\ blobCount = 0
  /\ \E fill \in WordInputs.fills : bytes = Blob(fill, 0, <<>>)
  /\ target = Null
  /\ setResult = "none"
  /\ writes = 0
  /\ io = Null

NextWords ==
  \/ SetBit(WordInputs)
  \/ SetInt(WordInputs)
  \/ SetSignedInt(WordInputs)
  \/ SetFloat(WordInputs)
  \/ GetInt(WordInputs)
  \/ GetSignedInt(WordInputs)

SpecWords == InitWords /\ [][NextWords]_vars

\* the field of the last call lies inside the blob
FieldInside == io.from + io.size <= End

\* the step reads back, with the operation op, the field the last call wrote
ReadsBack(op) ==
  /\ io # Null
  /\ io' # Null
  /\ io'.op = op
  /\ io.op \in {"setInt", "setSignedInt"}
  /\ io'.from = io.from
  /\ io'.size = io.size

\* C14: for every width of 1..32, every bit address inside the buffer and every
\* v of 0 .. 2^w - 1, setInt(addr, w, v) followed by getInt(addr, w) returns v.
C14_RoundTrip ==
  [][(ReadsBack("getInt") /\ io.op = "setInt" /\ io.from < End) =>
       io'.value = io.value]_vars

\* C14, for a field that ends inside the blob: setInt(addr, w, v) followed by
\* getInt(addr, w) returns v for every width of 1..32, aligned or not.
C14_RoundTripInside ==
  [][(ReadsBack("getInt") /\ io.op = "setInt" /\ FieldInside) =>
       io'.value = io.value]_vars

\* 32 ones written at bit 3 of a blob of zeros have been read back
C14_Witness ==
  /\ io # Null
  /\ io.op = "getInt"
  /\ io.from = 3
  /\ io.size = 32
  /\ io.value = AllOnes(32)
  /\ writes = 1
  /\ getBit(bytes, 0) = 0
  /\ getBit(bytes, 35) = 0

\* a < b for two whole numbers
Less(a, b) == a.hi < b.hi \/ (a.hi = b.hi /\ a.lo < b.lo)

\* 2^w
PowerOfTwo(w) == IF w < 16 THEN Double(0, 2^w) ELSE Double(2^(w - 16), 0)

\* a - b for two whole numbers
Difference(a, b) ==
  IF a.lo < b.lo
    THEN Double(a.hi - b.hi - 1, a.lo - b.lo + 65536)
    ELSE Double(a.hi - b.hi, a.lo - b.lo)

\* the number a w-bit pattern u stands for in two's complement of width w
TwosComplement(u, w) ==
  IF Less(u, TopBit(w)) THEN u ELSE Difference(u, PowerOfTwo(w))

\* what getSignedInt is to return for the field the last call wrote
SignedReadBack ==
  IF io.op = "setSignedInt" THEN io.value ELSE TwosComplement(io.value, io.size)

\* C15: signed integers are two's complement relative to the width: for every
\* width of 1..32, setSignedInt(addr, w, v) followed by getSignedInt(addr, w)
\* returns v, and getSignedInt of a pattern u written by setInt returns u where
\* u < 2^(w-1) and u - 2^w otherwise.
C15_SignedRoundTrip ==
  [][(ReadsBack("getSignedInt") /\ FieldInside) =>
       io'.value = SignedReadBack]_vars

\* a 31-bit field of ones, the pattern of -1, has been read back as 2^32 - 1
C15_Witness ==
  /\ io # Null
  /\ io.op = "getSignedInt"
  /\ io.from = 3
  /\ io.size = 31
  /\ writes = 1
  /\ getBit(bytes, 0) = 0
  /\ getInt(bytes, 3, 31) = AllOnes(31)
  /\ io.value = Double(65535, 65535)

\* C15, for the widths of 1..30: both round trips hold.
C15_SignedRoundTripTo30 ==
  [][(ReadsBack("getSignedInt") /\ FieldInside /\ io.size <= 30) =>
       io'.value = SignedReadBack]_vars

Writers == {"setBit", "setInt", "setSignedInt", "setFloat"}

\* C16: setBit, setInt, setSignedInt and setFloat never change the length of
\* the blob, also for an address at or past its end, and change no bit outside
\* [from, from + size).
C16_WritersPatchInPlace ==
  [][(io' # Null /\ io'.op \in Writers /\ writes' = writes + 1) =>
       /\ Len(bytes') = Len(bytes)
       /\ \A at \in 0..(End - 1) :
            (at < io'.from \/ at >= io'.from + io'.size) =>
              getBit(bytes', at) = getBit(bytes, at)]_vars

\* 16 bits have been written over the last byte of a blob of zeros
C16_Witness ==
  /\ io # Null
  /\ io.op = "setInt"
  /\ io.from = End - 8
  /\ io.size = 16
  /\ io.value = AllOnes(16)
  /\ getBit(bytes, End - 1) = 1
  /\ getBit(bytes, End - 9) = 0
  /\ Len(bytes) = End

(***************************************************************************)
(* The readers of DemoBuffer: the get* operations read at an absolute bit  *)
(* address, the next* operations at the cursor, which they move.           *)
(***************************************************************************)
\* DemoBuffer.getDouble: the double whose IEEE-754 bytes the 64 bits are
getDouble(B, from) == [float64 |-> getBitSlice(B, from, from + 64)]

\* String.indexOf, counted from 0, -1 where the character is not there
indexOf(string, char) ==
  IF \E k \in 1..Len(string) : string[k] = char
    THEN (CHOOSE k \in 1..Len(string) :
            string[k] = char /\ \A j \in 1..(k - 1) : string[j] # char) - 1
    ELSE 0 - 1

\* String.slice(0, end): a negative end counts from the end of the string
slice(string, end) ==
  LET to == IF end < 0 THEN Len(string) + end ELSE end
  IN  SubSeq(string, 1, IF to > Len(string) THEN Len(string) ELSE to)

\* DemoBuffer.getTrimmedString
getTrimmedString(B, from, size) ==
  LET string == getString(B, from, size)
  IN  slice(string, indexOf(string, 0))

\* the loop of getNullTerminatedString from its byte i on: it ends at the first
\* zero byte, or when it has read as many bytes as the blob holds
RECURSIVE stringFrom(_, _, _, _)
stringFrom(B, from, i, string) ==
  IF ~(i < Len(B))
    THEN [string |-> string, reads |-> i \div 8]
  ELSE IF getByte(B, from + i) = 0
    THEN [string |-> string, reads |-> (i \div 8) + 1]
  ELSE stringFrom(B, from, i + 8, Append(string, getByte(B, from + i)))

\* DemoBuffer.getNullTerminatedString
getNullTerminatedString(B, from) == stringFrom(B, from, 0, <<>>).string

\* the number of bytes getNullTerminatedString reads
BytesRead(B, from) == stringFrom(B, from, 0, <<>>).reads

\* what a next* operation returns, and where it leaves the cursor
Read(value, after) == [value |-> value, cursor |-> after]

nextBit(B, at) == Read(getBit(B, at), at + 1)

\* a reader that moves the cursor to the next byte boundary
nextByte_toBoundary(B, at) == Read(getByte(B, at), 8 * ((at \div 8) + 1))

nextByte(B, at) == Read(getByte(B, at), at + 8)

nextBytes(B, at, size) == Read(getBitSlice(B, at, at + size), at + size)

nextString(B, at, size) == Read(getString(B, at, size), at + size)

nextTrimmedString(B, at, size) ==
  LET next == nextString(B, at, size)
  IN  Read(slice(next.value, indexOf(next.value, 0)), next.cursor)

nextNullTerminatedString(B, at) ==
  LET string == getNullTerminatedString(B, at)
  IN  Read(string, at + (Len(string) * 8) + 8)

nextInt(B, at, size) == Read(getInt(B, at, size), at + size)

nextSignedInt(B, at, size) == Read(getSignedInt(B, at, size), at + size)

nextFloat(B, at) == Read(getFloat(B, at), at + 32)

nextDouble(B, at) == Read(getDouble(B, at), at + 64)

\* the bits of a run of bytes, the least significant bit of each first
bitsOf(octets) ==
  [k \in 1..(8 * Len(octets)) |-> (octets[((k - 1) \div 8) + 1] \div 2^((k - 1) % 8)) % 2]

ReaderInputs ==
  [blobs   |-> {Blob(1, 0, <<>>),
                Blob(0, 3, bitsOf(<<65, 66, 0, 200>>)),
                Blob(1, 0, bitsOf(<<65, 0, 129>>)),
                Blob(0, 8, bitsOf(<<255, 255, 255, 255, 127>>))},
   cursors |-> {0, 3},
   froms   |-> {3, End - 5},
   sizes   |-> {5, 32}]

\* everything of the session but the cursor
parsedVars == <<events, blobCount, messages, tick, lastTick, pc, result, pkt, pe,
                cmdQueue, calls, finishCalls, ctorReturned, stopAsked, schema,
                stringTables>>

\* a get* call: the answer is all that is new
Got(op, from, size, value) ==
  /\ io' = [op |-> op, from |-> from, size |-> size, value |-> value]
  /\ UNCHANGED <<bytes, writes, target, setResult, log, sessionVars, storeVars>>

\* a next* call: the answer, and the cursor where the operation left it
Took(op, size, next) ==
  /\ cursor <= End
  /\ io' = [op |-> op, from |-> cursor, size |-> size, value |-> next.value]
  /\ cursor' = next.cursor
  /\ UNCHANGED <<bytes, writes, target, setResult, log, parsedVars, storeVars>>

GetBit(I) == \E from \in I.froms : Got("getBit", from, 1, getBit(bytes, from))

GetByte(I) == \E from \in I.froms : Got("getByte", from, 8, getByte(bytes, from))

GetBitSlice(I) ==
  \E from \in I.froms, size \in I.sizes :
    Got("getBitSlice", from, size, getBitSlice(bytes, from, from + size))

GetString(I) ==
  \E from \in I.froms, size \in I.sizes :
    Got("getString", from, size, getString(bytes, from, size))

GetTrimmedString(I) ==
  \E from \in I.froms, size \in I.sizes :
    Got("getTrimmedString", from, size, getTrimmedString(bytes, from, size))

GetNullTerminatedString(I) ==
  \E from \in I.froms :
    Got("getNullTerminatedString", from, 0, getNullTerminatedString(bytes, from))

GetIntAt(I) ==
  \E from \in I.froms, size \in I.sizes :
    Got("getInt", from, size, getInt(bytes, from, size))

GetSignedIntAt(I) ==
  \E from \in I.froms, size \in I.sizes :
    Got("getSignedInt", from, size, getSignedInt(bytes, from, size))

GetFloat(I) == \E from \in I.froms : Got("getFloat", from, 32, getFloat(bytes, from))

GetDouble(I) == \E from \in I.froms : Got("getDouble", from, 64, getDouble(bytes, from))

NextBit == Took("nextBit", 1, nextBit(bytes, cursor))

NextByte == Took("nextByte", 8, nextByte(bytes, cursor))

NextBytes(I) == \E size \in I.sizes : Took("nextBytes", size, nextBytes(bytes, cursor, size))

NextString(I) ==
  \E size \in I.sizes : Took("nextString", size, nextString(bytes, cursor, size))

NextTrimmedString(I) ==
  \E size \in I.sizes :
    Took("nextTrimmedString", size, nextTrimmedString(bytes, cursor, size))

NextNullTerminatedString ==
  Took("nextNullTerminatedString", 0, nextNullTerminatedString(bytes, cursor))

NextInt(I) == \E size \in I.sizes : Took("nextInt", size, nextInt(bytes, cursor, size))

NextSignedInt(I) ==
  \E size \in I.sizes : Took("nextSignedInt", size, nextSignedInt(bytes, cursor, size))

NextFloat == Took("nextFloat", 32, nextFloat(bytes, cursor))

NextDouble == Took("nextDouble", 64, nextDouble(bytes, cursor))

InitReaders ==
  /\ events = {}
  /\ blobCount = 0
  /\ cursor \in ReaderInputs.cursors
  /\ messages = <<>>
  /\ tick = 0
  /\ lastTick = 0
  /\ entities = Null
  /\ ents = <<>>
  /\ eprops = <<>>
  /\ baselines = [length |-> 0, at |-> <<>>]
  /\ schema = Null
  /\ stringTables = <<>>
  /\ pc = "loop"
  /\ result = "none"
  /\ pkt = Null
  /\ pe = Null
  /\ cmdQueue = <<>>
  /\ calls = <<>>
  /\ finishCalls = <<>>
  /\ ctorReturned = FALSE
  /\ stopAsked = FALSE
  /\ log = <<>>
  /\ bytes \in ReaderInputs.blobs
  /\ target = Null
  /\ setResult = "none"
  /\ writes = 0
  /\ io = Null

NextReaders ==
  \/ GetBit(ReaderInputs)
  \/ GetByte(ReaderInputs)
  \/ GetBitSlice(ReaderInputs)
  \/ GetString(ReaderInputs)
  \/ GetTrimmedString(ReaderInputs)
  \/ GetNullTerminatedString(ReaderInputs)
  \/ GetIntAt(ReaderInputs)
  \/ GetSignedIntAt(ReaderInputs)
  \/ GetFloat(ReaderInputs)
  \/ GetDouble(ReaderInputs)
  \/ NextBit
  \/ NextByte
  \/ NextBytes(ReaderInputs)
  \/ NextString(ReaderInputs)
  \/ NextTrimmedString(ReaderInputs)
  \/ NextNullTerminatedString
  \/ NextInt(ReaderInputs)
  \/ NextSignedInt(ReaderInputs)
  \/ NextFloat
  \/ NextDouble

SpecReaders == InitReaders /\ [][NextReaders]_vars

GetOps ==
  {"getBit", "getByte", "getBitSlice", "getString", "getTrimmedString",
   "getNullTerminatedString", "getInt", "getSignedInt", "getFloat", "getDouble"}

NextOps ==
  {"nextBit", "nextByte", "nextBytes", "nextString", "nextTrimmedString",
   "nextNullTerminatedString", "nextInt", "nextSignedInt", "nextFloat", "nextDouble"}

\* what the get* operation matching a next* operation returns at the address
Matching(op, B, at, size) ==
  CASE op = "nextBit" -> getBit(B, at)
    [] op = "nextByte" -> getByte(B, at)
    [] op = "nextBytes" -> getBitSlice(B, at, at + size)
    [] op = "nextString" -> getString(B, at, size)
    [] op = "nextTrimmedString" -> getTrimmedString(B, at, size)
    [] op = "nextNullTerminatedString" -> getNullTerminatedString(B, at)
    [] op = "nextInt" -> getInt(B, at, size)
    [] op = "nextSignedInt" -> getSignedInt(B, at, size)
    [] op = "nextFloat" -> getFloat(B, at)
    [] op = "nextDouble" -> getDouble(B, at)

\* the number of bits a next* operation reads: the width of its field, and for
\* the null-terminated string the bytes its loop reads
Consumed(op, B, at, size) ==
  IF op = "nextNullTerminatedString" THEN 8 * BytesRead(B, at) ELSE size

GetsLeaveAll == (io' # Null /\ io'.op \in GetOps) => (cursor' = cursor /\ bytes' = bytes)

NextMatchesGet ==
  (io' # Null /\ io'.op \in NextOps /\ cursor' # cursor) =>
     /\ bytes' = bytes
     /\ io'.value = Matching(io'.op, bytes, cursor, io'.size)

NextAdvances ==
  (io' # Null /\ io'.op \in NextOps /\ cursor' # cursor) =>
     cursor' = cursor + Consumed(io'.op, bytes, cursor, io'.size)

\* the loop of getNullTerminatedString at the address ends at a zero byte
Terminated(B, at) ==
  \E i \in 0..((Len(B) \div 8) - 1) : getByte(B, at + (8 * i)) = 0

\* C17: no get* operation changes the cursor or the blob; every next* operation
\* returns what the matching get* returns at the cursor and advances the cursor
\* by exactly the number of bits it read.
C17_ReadersAndCursor == [][GetsLeaveAll /\ NextMatchesGet /\ NextAdvances]_vars

\* a null-terminated string has been read from the start of a blob that holds no
\* zero byte: the cursor is 8 bits past the last bit read
C17_Witness ==
  /\ io # Null
  /\ io.op = "nextNullTerminatedString"
  /\ io.from = 0
  /\ Len(io.value) = BlobBytes
  /\ ~Terminated(bytes, 0)
  /\ cursor = End + 8

\* C17, where a null-terminated string ends at a zero byte: the get* operations
\* change nothing, and the next* operations return what the get* operations
\* return and advance by the bits read.
C17_ReadersAndCursorTerminated ==
  [][/\ GetsLeaveAll
     /\ NextMatchesGet
     /\ (io' # Null /\ io'.op = "nextNullTerminatedString" /\ ~Terminated(bytes, cursor))
          \/ NextAdvances]_vars

(***************************************************************************)
(* DataTable.ts: the tables of the schema and ParserClass, which flattens  *)
(* the table tree of a server class into one sorted property list.         *)
(***************************************************************************)
\* a DataTableProperty with a value range or an element count
Property(type, name, flags, priority) ==
  [type |-> type, name |-> name, flags |-> flags, priority |-> priority]

\* line 51: a property of type DataTable or flagged Exclude has an excludeName
Naming(type, name, flags, priority, excludeName) ==
  [type |-> type, name |-> name, flags |-> flags, priority |-> priority,
   excludeName |-> excludeName]

HasExcludeName(property) == "excludeName" \in DOMAIN property

DataTable(name, properties) == [name |-> name, properties |-> properties]

ServerClass(tableID, className, tableName) ==
  [tableID |-> tableID, className |-> className, tableName |-> tableName]

\* baseProperty is a reference to a property object of a table: table names
\* the table that holds it
FlatProperty(name, baseProperty, table) ==
  [name |-> name, baseProperty |-> baseProperty, table |-> table]

FlatArrayProperty(name, baseProperty, table, baseArrayProperty) ==
  [name |-> name, baseProperty |-> baseProperty, table |-> table,
   baseArrayProperty |-> baseArrayProperty]

ParserClass(serverClass, flatProperties) ==
  [serverClass |-> serverClass, flatProperties |-> flatProperties]

ExcludePair(from, exclude) == [from |-> from, exclude |-> exclude]

\* ExcludePairSet.has: the first max elements are looked at, all of them where
\* max is missing or 0
has(elements, element, max) ==
  LET n == IF max = 0 THEN Len(elements) ELSE max
  IN  \E i \in 1..n : i <= Len(elements) /\ elements[i] = element

\* ExcludePairSet.add
add(elements, newElement) ==
  IF has(elements, newElement, 0) THEN elements ELSE Append(elements, newElement)

\* the loop of ExcludePairSet.union: max is the length before the loop
RECURSIVE unionFrom(_, _, _)
unionFrom(elements, other, max) ==
  IF other = <<>> THEN elements
  ELSE IF has(elements, Head(other), max) THEN unionFrom(elements, Tail(other), max)
  ELSE unionFrom(Append(elements, Head(other)), Tail(other), max)

\* ExcludePairSet.union
union(elements, other) == unionFrom(elements, other, Len(elements))

\* a gathering that looks at the table's own properties only
RECURSIVE gatherExcludes_ownOnly(_, _, _, _)
gatherExcludes_ownOnly(D, table, i, excludes) ==
  IF i > Len(table.properties) THEN excludes
  ELSE LET property == table.properties[i]
       IN  IF HasExcludeName(property) /\ property.type # "DataTable"
              /\ hasFlag(property, "Exclude")
             THEN gatherExcludes_ownOnly(D, table, i + 1,
                    add(excludes, ExcludePair(property.excludeName, property.name)))
             ELSE gatherExcludes_ownOnly(D, table, i + 1, excludes)

\* ParserClass.gatherExcludes, from the property i of the table on; D is
\* demo.dataTables, a function from the names of the tables
RECURSIVE gatherExcludes(_, _, _, _)
gatherExcludes(D, table, i, excludes) ==
  IF i > Len(table.properties) THEN excludes
  ELSE LET property == table.properties[i]
       IN  IF ~HasExcludeName(property)
             THEN gatherExcludes(D, table, i + 1, excludes)
           ELSE IF property.type = "DataTable"
             THEN IF property.excludeName \notin DOMAIN D
                    THEN gatherExcludes(D, table, i + 1, excludes)
                    ELSE gatherExcludes(D, table, i + 1,
                           union(excludes,
                                 gatherExcludes(D, D[property.excludeName], 1, <<>>)))
           ELSE IF hasFlag(property, "Exclude")
             THEN gatherExcludes(D, table, i + 1,
                    add(excludes, ExcludePair(property.excludeName, property.name)))
           ELSE gatherExcludes(D, table, i + 1, excludes)

\* what the flattening works on: parsedTable, the flatProperties list of the
\* gatherProperties call at hand, and the warnings
Flat(parsedTable, flatProperties, warned) ==
  [parsedTable |-> parsedTable, flatProperties |-> flatProperties, warned |-> warned]

\* lines 227-236: the list of the call is pushed onto the list of the class
pushFlat(F, serverClass, outer) ==
  LET parsedTable == IF serverClass.tableID = Len(F.parsedTable)
                       THEN Append(F.parsedTable, ParserClass(serverClass, <<>>))
                       ELSE F.parsedTable
  IN  IF serverClass.tableID >= Len(parsedTable) \/ serverClass.tableID < 0
        THEN Flat(parsedTable, outer, Append(F.warned, "Missing ParserClass"))
        ELSE Flat([parsedTable EXCEPT ![serverClass.tableID + 1].flatProperties =
                     @ \o F.flatProperties],
                  outer, F.warned)

\* a walk that passes over the property and says nothing
missingTable_silent(F) == F

\* lines 269-272: a warning, and the walk goes on with the next property
missingTable(F) == [F EXCEPT !.warned = Append(@, "Missing excluded table")]

\* a test that looks at the flags only
skips_flagsOnly(excludes, table, property) ==
  \/ hasFlag(property, "Exclude")
  \/ hasFlag(property, "InsideArray")

\* lines 253-258: the definition is passed over
skips(excludes, table, property) ==
  \/ hasFlag(property, "Exclude")
  \/ hasFlag(property, "InsideArray")
  \/ has(excludes, ExcludePair(table.name, property.name), 0)

\* a pairing that takes the first definition of the table
elementOf_first(table, i) == table.properties[1]

\* line 293: the definition before the array property in its table, the
\* property i being the one at i - 1 of the source
elementOf(table, i) == table.properties[i - 1]

\* ParserClass.iterateProperties, from the property i of the table on; a
\* table that is not collapsible is gathered by gatherProperties (lines
\* 216-238), with a list of its own
RECURSIVE iterateProperties(_, _, _, _, _, _, _)
iterateProperties(D, F, excludes, table, serverClass, prefix, i) ==
  IF i > Len(table.properties) THEN F
  ELSE
    LET property == table.properties[i]
        next(G) == iterateProperties(D, G, excludes, table, serverClass, prefix, i + 1)
    IN  IF skips(excludes, table, property)
          THEN next(F)
        ELSE IF property.type = "DataTable"
          THEN IF property.excludeName = ""
                 THEN next([F EXCEPT !.warned = Append(@, "missing name")])
               ELSE IF property.excludeName \notin DOMAIN D
                 THEN next(missingTable(F))
               ELSE IF hasFlag(property, "Collapsible")
                 THEN next(iterateProperties(D, F, excludes, D[property.excludeName],
                                             serverClass, prefix, 1))
               ELSE LET newPrefix == IF property.name # "" THEN property.name \o "."
                                     ELSE ""
                        inner == iterateProperties(
                                   D, [F EXCEPT !.flatProperties = <<>>], excludes,
                                   D[property.excludeName], serverClass, newPrefix, 1)
                    IN  next(pushFlat(inner, serverClass, F.flatProperties))
        ELSE IF property.type = "Array" /\ i = 1
          THEN next([F EXCEPT !.warned = Append(@, "array element without array")])
        ELSE IF property.type = "Array"
          THEN next([F EXCEPT !.flatProperties =
                       Append(@, FlatArrayProperty(prefix \o property.name, property,
                                                   table.name, elementOf(table, i)))])
        ELSE next([F EXCEPT !.flatProperties =
                     Append(@, FlatProperty(prefix \o property.name, property, table.name))])

\* ParserClass.gatherProperties for the table of a server class
gatherProperties(D, parsedTable, excludes, table, serverClass) ==
  LET inner == iterateProperties(D, Flat(parsedTable, <<>>, <<>>), excludes, table,
                                 serverClass, "", 1)
  IN  pushFlat(inner, serverClass, <<>>)

\* lines 304-307: the priorities of the list and 64, in ascending order, each once
prioritySet(flatProperties) ==
  {flatProperties[i].baseProperty.priority : i \in 1..Len(flatProperties)} \cup {64}

\* lines 328-329: the property at i and the one at start change places
exchange(flatProperties, start, i) ==
  [flatProperties EXCEPT ![start + 1] = flatProperties[i + 1],
                         ![i + 1] = flatProperties[start + 1]]

\* a pass that takes the properties of its own priority only
RECURSIVE pass_ownPriority(_, _, _, _)
pass_ownPriority(flatProperties, priority, i, start) ==
  IF ~(i < Len(flatProperties))
    THEN [flatProperties |-> flatProperties, start |-> start]
  ELSE IF flatProperties[i + 1].baseProperty.priority # priority
    THEN pass_ownPriority(flatProperties, priority, i + 1, start)
  ELSE pass_ownPriority(exchange(flatProperties, start, i), priority, i + 1, start + 1)

\* a pass that counts a property in and leaves it where it is
RECURSIVE pass_inPlace(_, _, _, _)
pass_inPlace(flatProperties, priority, i, start) ==
  IF ~(i < Len(flatProperties))
    THEN [flatProperties |-> flatProperties, start |-> start]
  ELSE LET baseProperty == flatProperties[i + 1].baseProperty
       IN  IF /\ baseProperty.priority # priority
              /\ ~(hasFlag(baseProperty, "ChangesOften") /\ priority = 64)
             THEN pass_inPlace(flatProperties, priority, i + 1, start)
             ELSE pass_inPlace(flatProperties, priority, i + 1, start + 1)

\* lines 311-332: the pass of one priority, from index i on
RECURSIVE pass(_, _, _, _)
pass(flatProperties, priority, i, start) ==
  IF ~(i < Len(flatProperties))
    THEN [flatProperties |-> flatProperties, start |-> start]
  ELSE LET baseProperty == flatProperties[i + 1].baseProperty
       IN  IF /\ baseProperty.priority # priority
              /\ ~(hasFlag(baseProperty, "ChangesOften") /\ priority = 64)
             THEN pass(flatProperties, priority, i + 1, start)
             ELSE pass(exchange(flatProperties, start, i), priority, i + 1, start + 1)

\* line 310: the passes of the priorities still to visit, in ascending order
RECURSIVE passes(_, _, _)
passes(flatProperties, priorities, start) ==
  IF priorities = {} THEN flatProperties
  ELSE LET priority == CHOOSE p \in priorities : \A q \in priorities : p <= q
           done == pass(flatProperties, priority, start, start)
       IN  passes(done.flatProperties, priorities \ {priority}, done.start)

\* ParserClass.sortProperties
sortProperties(flatProperties) == passes(flatProperties, prioritySet(flatProperties), 0)

\* the loop of ParserClass.fromDemo over the server classes; sorted keeps, for
\* each class that is sorted, the excludes gathered for it and the list that
\* sortProperties was given
RECURSIVE classesFrom(_, _, _)
classesFrom(D, F, serverClasses) ==
  IF serverClasses = <<>> THEN F
  ELSE
    LET serverClass == Head(serverClasses)
        tableID == serverClass.tableID
    IN  IF serverClass.tableName \notin DOMAIN D
          THEN classesFrom(D, [F EXCEPT !.warned = Append(@, "Missing DataTable")],
                           Tail(serverClasses))
        ELSE
          LET table == D[serverClass.tableName]
              excludes == gatherExcludes(D, table, 1, <<>>)
              G == gatherProperties(D, F.parsedTable, excludes, table, serverClass)
              H == [parsedTable |-> G.parsedTable, warned |-> F.warned \o G.warned,
                    sorted |-> F.sorted]
          IN  IF tableID >= Len(G.parsedTable)
                THEN classesFrom(D, [H EXCEPT !.warned = Append(@, "Missing ParserClass")],
                                 Tail(serverClasses))
                ELSE classesFrom(
                       D,
                       [H EXCEPT
                          !.sorted = Append(@, [tableID |-> tableID,
                                                tableName |-> table.name,
                                                excludes |-> excludes,
                                                flatProperties |->
                                                  G.parsedTable[tableID + 1].flatProperties]),
                          !.parsedTable[tableID + 1].flatProperties = sortProperties(@)],
                       Tail(serverClasses))

\* ParserClass.fromDemo
parserClassesFromDemo(D, serverClasses) ==
  classesFrom(D, [parsedTable |-> <<>>, warned |-> <<>>, sorted |-> <<>>], serverClasses)

MaxProperties == 3

Priorities == {10, 32, 64, 128}

\* a table T of up to MaxProperties value properties, named by their place
ListNames == <<"a", "b", "c", "d", "e">>

Lists ==
  UNION {{[i \in 1..n |-> Property("Int", ListNames[i], f[i].flags, f[i].priority)] :
            f \in [1..n -> [flags : {{}, {"ChangesOften"}}, priority : Priorities]]} :
         n \in 0..MaxProperties}

ListSchemas ==
  {[dataTables |-> ("T" :> DataTable("T", properties)),
    serverClasses |-> <<ServerClass(0, "CT", "T")>>] : properties \in Lists}

\* the message that sets demo.dataTables and demo.serverClasses has been read:
\* ParserClass.fromDemo flattens, sorts and sets demo.parserClasses
FromDemo ==
  /\ "parserClasses" \notin DOMAIN schema
  /\ LET made == parserClassesFromDemo(schema.dataTables, schema.serverClasses)
     IN  /\ schema' = [dataTables |-> schema.dataTables,
                       serverClasses |-> schema.serverClasses,
                       parserClasses |-> made.parsedTable]
         /\ io' = [op |-> "fromDemo", sorted |-> made.sorted]
         /\ log' = log \o made.warned
  /\ UNCHANGED <<bytes, writes, target, setResult, storeVars, events, blobCount, cursor,
                 messages, tick, lastTick, pc, result, pkt, pe, cmdQueue, calls,
                 finishCalls, ctorReturned, stopAsked, stringTables>>

InitTables(schemas) ==
  /\ events = {}
  /\ blobCount = 0
  /\ cursor = HeaderBits
  /\ messages = <<>>
  /\ tick = 0
  /\ lastTick = 0
  /\ entities = Null
  /\ ents = <<>>
  /\ eprops = <<>>
  /\ baselines = [length |-> 0, at |-> <<>>]
  /\ schema \in schemas
  /\ stringTables = <<>>
  /\ pc = "loop"
  /\ result = "none"
  /\ pkt = Null
  /\ pe = Null
  /\ cmdQueue = <<>>
  /\ calls = <<>>
  /\ finishCalls = <<>>
  /\ ctorReturned = FALSE
  /\ stopAsked = FALSE
  /\ log = <<>>
  /\ NoRewrite

SpecSort == InitTables(ListSchemas) /\ [][FromDemo]_vars

\* the pass of sortProperties that takes the property
Bucket(flatProperty) ==
  LET baseProperty == flatProperty.baseProperty
  IN  IF hasFlag(baseProperty, "ChangesOften") /\ baseProperty.priority > 64
        THEN 64
        ELSE baseProperty.priority

Sorted == "parserClasses" \in DOMAIN schema

\* the sorted list of a class that sortProperties was called for
Output(call) == schema.parserClasses[call.tableID + 1].flatProperties

Place(flatProperties, flatProperty) ==
  CHOOSE i \in 1..Len(flatProperties) : flatProperties[i] = flatProperty

KeepsOrder(call, i, j) ==
  Place(Output(call), call.flatProperties[i]) < Place(Output(call), call.flatProperties[j])

\* C18: in the sorted list, any two properties of the same bucket are in the
\* order they had in the list before the sort.
C18_StablePartition ==
  Sorted =>
    \A k \in 1..Len(io.sorted) :
      LET call == io.sorted[k]
      IN  \A i, j \in 1..Len(call.flatProperties) :
            (i < j /\ Bucket(call.flatProperties[i]) = Bucket(call.flatProperties[j]))
              => KeepsOrder(call, i, j)

LowestBucket(flatProperties) ==
  CHOOSE b \in {Bucket(flatProperties[i]) : i \in 1..Len(flatProperties)} :
    \A i \in 1..Len(flatProperties) : b <= Bucket(flatProperties[i])

\* C18 as the code has it: the sorted list holds the properties of the list
\* before the sort, each once, the buckets in ascending order; the properties
\* of the lowest bucket are in the order they had before the sort.
C18_PartitionLowestStable ==
  Sorted =>
    \A k \in 1..Len(io.sorted) :
      LET call == io.sorted[k]
          input == call.flatProperties
          output == Output(call)
      IN  /\ Len(output) = Len(input)
          /\ \A i \in 1..Len(input) : \E j \in 1..Len(output) : output[j] = input[i]
          /\ \A i, j \in 1..Len(output) : i < j => Bucket(output[i]) <= Bucket(output[j])
          /\ \A i, j \in 1..Len(input) :
               (i < j /\ Bucket(input[i]) = LowestBucket(input)
                      /\ Bucket(input[j]) = LowestBucket(input))
                 => KeepsOrder(call, i, j)

\* a and b have priority 128 and c, after them, priority 32: the sort has put c
\* first and left b before a
C18_Witness ==
  /\ Sorted
  /\ Len(io.sorted) = 1
  /\ Len(io.sorted[1].flatProperties) = 3
  /\ io.sorted[1].flatProperties[1].name = "a"
  /\ io.sorted[1].flatProperties[2].name = "b"
  /\ Bucket(io.sorted[1].flatProperties[1]) = 128
  /\ Bucket(io.sorted[1].flatProperties[2]) = 128
  /\ Bucket(io.sorted[1].flatProperties[3]) = 32
  /\ Output(io.sorted[1])[1].name = "c"
  /\ Output(io.sorted[1])[2].name = "b"
  /\ Output(io.sorted[1])[3].name = "a"

ChangesOften(flatProperty) == hasFlag(flatProperty.baseProperty, "ChangesOften")

Declared(flatProperty) == flatProperty.baseProperty.priority

\* C19: in the sorted list a property flagged ChangesOften comes after every
\* property of declared priority below 64 that is not flagged ChangesOften,
\* whatever its own declared priority.
C19_ChangesOftenLast ==
  Sorted =>
    \A k \in 1..Len(io.sorted) :
      LET output == Output(io.sorted[k])
      IN  \A i, j \in 1..Len(output) :
            (/\ ChangesOften(output[i])
             /\ ~ChangesOften(output[j])
             /\ Declared(output[j]) < 64) => j < i

\* C19 as the code has it: a property flagged ChangesOften of declared priority
\* 64 or more is in the bucket of priority 64: it comes after every property
\* of declared priority below 64 and before every unflagged property of
\* declared priority above 64; one of declared priority below 64 is in the
\* bucket of its own priority.
C19_ChangesOftenAt64 ==
  Sorted =>
    \A k \in 1..Len(io.sorted) :
      LET output == Output(io.sorted[k])
      IN  \A i, j \in 1..Len(output) :
            /\ (ChangesOften(output[i]) /\ Declared(output[i]) >= 64
                  /\ Declared(output[j]) < 64) => j < i
            /\ (ChangesOften(output[i]) /\ Declared(output[i]) >= 64
                  /\ ~ChangesOften(output[j]) /\ Declared(output[j]) > 64) => i < j
            /\ (ChangesOften(output[i]) /\ Declared(output[i]) < 64
                  /\ Declared(output[j]) < Declared(output[i])) => j < i
            /\ (ChangesOften(output[i]) /\ Declared(output[i]) < 64
                  /\ Declared(output[j]) > Declared(output[i])) => i < j

\* a, of priority 128 and not flagged, was before b, of priority 128 and
\* flagged ChangesOften, and c, of priority 32: the sort has put c first, then
\* b, then a
C19_Witness ==
  /\ Sorted
  /\ Len(io.sorted) = 1
  /\ Len(io.sorted[1].flatProperties) = 3
  /\ io.sorted[1].flatProperties[1].name = "a"
  /\ ~ChangesOften(io.sorted[1].flatProperties[1])
  /\ Declared(io.sorted[1].flatProperties[1]) = 128
  /\ io.sorted[1].flatProperties[2].name = "b"
  /\ ChangesOften(io.sorted[1].flatProperties[2])
  /\ Declared(io.sorted[1].flatProperties[2]) = 128
  /\ Declared(io.sorted[1].flatProperties[3]) = 32
  /\ ~ChangesOften(io.sorted[1].flatProperties[3])
  /\ Output(io.sorted[1])[1].name = "c"
  /\ Output(io.sorted[1])[2].name = "b"
  /\ Output(io.sorted[1])[3].name = "a"

(***************************************************************************)
(* Table trees: the table A of a class holds the table B, B holds C, and   *)
(* one of the tables may declare an exclusion.                             *)
(***************************************************************************)
Value(name) == Property("Int", name, {}, 0)

Nested(name, flags, tableName) == Naming("DataTable", name, flags, 0, tableName)

\* a property flagged Exclude: the property name of the table from is excluded
Excluding(from, name) == Naming("Int", name, {"Exclude"}, 0, from)

LinkFlags == {{}, {"Collapsible"}}

Exclusions ==
  {<<>>} \cup {<<Excluding(e[1], e[2])>> :
                 e \in {<<"C", "c1">>, <<"A", "x">>, <<"B", "y">>, <<"B", "toC">>}}

TreeSchemas ==
  {[dataTables |->
      [t \in {"A", "B", "C"} |->
         CASE t = "A" -> DataTable("A", (IF at = "A" THEN ex ELSE <<>>)
                                        \o <<Value("x"), Nested("toB", ab, "B")>>
                                        \o (IF direct THEN <<Nested("toC", {}, "C")>>
                                                      ELSE <<>>))
           [] t = "B" -> DataTable("B", (IF at = "B" THEN ex ELSE <<>>)
                                        \o <<Nested("toC", bc, "C"), Value("y")>>)
           [] t = "C" -> DataTable("C", <<Value("c1")>>
                                        \o (IF at = "C" THEN ex ELSE <<>>)
                                        \o <<Value("c2")>>)],
    serverClasses |-> classes] :
     ab \in LinkFlags, bc \in LinkFlags, direct \in BOOLEAN,
     at \in {"A", "B", "C"}, ex \in Exclusions,
     classes \in {<<ServerClass(0, "CA", "A")>>,
                  <<ServerClass(0, "CA", "A"), ServerClass(1, "CB", "B")>>,
                  <<ServerClass(0, "CA", "A"), ServerClass(1, "CM", "M")>>}}

SpecTables == InitTables(TreeSchemas) /\ [][FromDemo]_vars

\* the tables a table holds: the tables its nested-table properties name
Holds(D, t) ==
  {D[t].properties[i].excludeName : i \in
     {k \in 1..Len(D[t].properties) :
        /\ D[t].properties[k].type = "DataTable"
        /\ D[t].properties[k].excludeName \in DOMAIN D}}

\* the tables reached from the tables of S in n steps or fewer
RECURSIVE Within(_, _, _)
Within(D, S, n) ==
  IF n = 0 THEN S ELSE Within(D, S \cup UNION {Holds(D, t) : t \in S}, n - 1)

\* the tables a table reaches through nested-table properties
Reaches(D, t) == Within(D, Holds(D, t), Cardinality(DOMAIN D))

\* the exclusions the table declares
Declares(D, t) ==
  {ExcludePair(D[t].properties[i].excludeName, D[t].properties[i].name) : i \in
     {k \in 1..Len(D[t].properties) :
        /\ D[t].properties[k].type # "DataTable"
        /\ hasFlag(D[t].properties[k], "Exclude")}}

Elements(excludes) == {excludes[i] : i \in 1..Len(excludes)}

Flattened(flatProperties, pair) ==
  \E i \in 1..Len(flatProperties) :
    /\ flatProperties[i].table = pair.from
    /\ flatProperties[i].baseProperty.name = pair.exclude

\* C20: the exclusions declared by a table that the table of a class reaches
\* through nested-table properties are in the exclusion set of the class, and
\* no property they name is in the flattened list of the class.
C20_ExclusionsReachRoot ==
  Sorted =>
    \A k \in 1..Len(io.sorted) :
      LET call == io.sorted[k]
      IN  \A t \in Reaches(schema.dataTables, call.tableName) :
            \A pair \in Declares(schema.dataTables, t) :
              /\ pair \in Elements(call.excludes)
              /\ ~Flattened(Output(call), pair)

\* C, two tables below the table A of the class, declares that its c1 is
\* excluded: the list of the class holds c2 of C and not c1
C20_Witness ==
  /\ Sorted
  /\ Len(io.sorted) >= 1
  /\ io.sorted[1].tableName = "A"
  /\ "C" \in Reaches(schema.dataTables, "B")
  /\ "C" \notin Holds(schema.dataTables, "A")
  /\ Declares(schema.dataTables, "C") = {ExcludePair("C", "c1")}
  /\ Declares(schema.dataTables, "A") = {}
  /\ Flattened(Output(io.sorted[1]), ExcludePair("C", "c2"))
  /\ ~Flattened(Output(io.sorted[1]), ExcludePair("C", "c1"))

(***************************************************************************)
(* SvcCreateStringTable and SvcUpdateStringTable.  demo.stringTables is a  *)
(* Map: here the sequence of its tables in the order they were set.  A     *)
(* name is the sequence of its character codes.                            *)
(***************************************************************************)
MaxSubs == 1

\* SvcCreateStringTable: the message, read from the blob
Creation(name, maxEntries, dataLength, fixed, userDataSize, userDataSizeBits) ==
  [name |-> name, maxEntries |-> maxEntries, dataLength |-> dataLength,
   udataFixedSize |-> fixed, userDataSize |-> userDataSize,
   userDataSizeBits |-> userDataSizeBits]

\* the bits of a SvcCreateStringTable up to its data
CreationBits(m) ==
  CStringBits(m.name) + 16 + (highestBitIndex(m.maxEntries) + 1) + 20 + 1
    + (IF m.udataFixedSize THEN 12 + 4 ELSE 0) + 2

\* SvcCreateStringTable.constructor, lines 261-270
createStringTable(tables, m) ==
  LET made == IF TablePlace(tables, m.name) = 0
                THEN Append(tables, NewStringTable(m.name))
                ELSE tables
      k == TablePlace(made, m.name)
      old == made[k]
  IN  [made EXCEPT ![k] =
         [name |-> old.name, entries |-> old.entries, maxEntries |-> m.maxEntries,
          userDataSize |-> IF m.udataFixedSize THEN m.userDataSize ELSE 0,
          userDataSizeBits |-> IF m.udataFixedSize THEN m.userDataSizeBits ELSE 0]]

\* one entry of a SvcUpdateStringTable as the bits give it: the bit that says
\* the index is the next one, or the index; the bit that says a name follows,
\* the bit that says it is compressed, the history index, the substring
\* length and the string; the bit that says data follows and its byte count
Entry(next, index, named, compressed, historyIndex, substringLength, string,
      hasData, dataBytes) ==
  [next |-> next, index |-> index, named |-> named, compressed |-> compressed,
   historyIndex |-> historyIndex, substringLength |-> substringLength,
   string |-> string, hasData |-> hasData, dataBytes |-> dataBytes]

Updating(tableID, dataLength, dictionary, entries) ==
  [tableID |-> tableID, changedEntries |-> Len(entries), dataLength |-> dataLength,
   dictionaryEnabled |-> dictionary, entries |-> entries]

\* what the loop of SvcUpdateStringTable works on
Loop(entries, history, entryIndex, at, warned, aborted) ==
  [entries |-> entries, history |-> history, entryIndex |-> entryIndex,
   cursor |-> at, warned |-> warned, aborted |-> aborted]

\* a parser that stores an entry without a name before it gives up
Abort_stored(U, at, i, text) ==
  [U EXCEPT !.entries = Append(@, [tableName |-> "", entryName |-> <<>>]),
            !.cursor = at, !.warned = Append(@, text), !.aborted = i]

\* a warning and `return`: the loop is left at entry i
Abort(U, at, i, text) ==
  [U EXCEPT !.cursor = at, !.warned = Append(@, text), !.aborted = i]

\* a history that never drops its oldest name
Remember_unbounded(history, entryName) == Append(history, entryName)

\* lines 350-353
Remember(history, entryName) ==
  Append(IF Len(history) = 32 THEN Tail(history) ELSE history, entryName)

\* line 329, !historyItem: the slot is not there, or holds the empty string
Missing(history, historyIndex) ==
  ~(historyIndex < Len(history)) \/ history[historyIndex + 1] = <<>>

\* line 316
Overflowing(entryIndex, length) == entryIndex > length

\* lines 308-370: the loop from entry i on; t is the table
RECURSIVE updateFrom(_, _, _, _)
updateFrom(U, t, es, i) ==
  IF i > Len(es) THEN U
  ELSE
    LET e == es[i]
        entryIndex == IF e.next THEN U.entryIndex + 1 ELSE e.index
        at1 == U.cursor + 1 + (IF e.next THEN 0 ELSE highestBitIndex(t.maxEntries))
    IN  IF Overflowing(entryIndex, Len(U.entries))
          THEN Abort(U, at1, i, "Overflowed string table size when parsing update.")
        ELSE IF e.named /\ e.compressed /\ Missing(U.history, e.historyIndex)
          THEN Abort(U, at1 + 1 + 1 + 5, i,
                 "Tried to retrieve non-existent entry from string table update history.")
        ELSE IF /\ e.named /\ e.compressed
                /\ e.substringLength > Len(U.history[e.historyIndex + 1])
          THEN Abort(U, at1 + 1 + 1 + 5 + 5, i,
                 "String table update entry substring longer than entry name.")
        ELSE
          LET entryName ==
                IF ~e.named THEN <<>>
                ELSE IF e.compressed
                  THEN SubSeq(U.history[e.historyIndex + 1], 1, e.substringLength)
                         \o e.string
                ELSE e.string
              at2 == at1 + 1 + (IF ~e.named THEN 0
                                ELSE IF e.compressed
                                  THEN 1 + 5 + 5 + CStringBits(e.string)
                                ELSE 1 + CStringBits(e.string))
              history == Remember(U.history, entryName)
              at3 == at2 + 1
              entryDataLength == IF t.userDataSizeBits # 0 THEN t.userDataSizeBits
                                 ELSE e.dataBytes * 8
              at4 == IF e.hasData /\ t.userDataSizeBits = 0 THEN at3 + 14 ELSE at3
              newEntry == StringTableEntry(t.name, entryName)
          IN  IF ~e.hasData
                THEN updateFrom(Loop(U.entries, history, entryIndex, at3, U.warned, 0),
                                t, es, i + 1)
              ELSE IF entryDataLength = 0
                THEN updateFrom(Loop(U.entries, history, entryIndex, at4, U.warned, 0),
                                t, es, i + 1)
              ELSE updateFrom(
                     Loop(IF entryIndex < Len(U.entries)
                            THEN [U.entries EXCEPT ![entryIndex + 1] = newEntry]
                            ELSE Append(U.entries, newEntry),
                          history, entryIndex, at4 + entryDataLength, U.warned, 0),
                     t, es, i + 1)

\* the bits of a SvcUpdateStringTable up to its data
UpdatingBits(m) == 5 + 1 + (IF m.changedEntries # 1 THEN 16 ELSE 0) + 20

\* SvcUpdateStringTable.constructor: the tables, the warnings, the entry the
\* loop was left at (0: none) and the cursor the parser had reached before it
\* was set to dataEnd
updateStringTable(tables, m, start) ==
  IF ~(m.tableID < Len(tables))
    THEN [tables |-> tables, aborted |-> 0, reached |-> start, history |-> <<>>,
          warned |-> <<"Tried to update non-existent string table.">>]
  ELSE IF "maxEntries" \notin DOMAIN tables[m.tableID + 1]
    THEN [tables |-> tables, aborted |-> 0, reached |-> start, history |-> <<>>,
          warned |-> <<"Got SvcUpdateStringTable before SvcCreateStringTable.">>]
  ELSE IF m.dictionaryEnabled
    THEN [tables |-> tables, aborted |-> 0, reached |-> start + 1, history |-> <<>>,
          warned |-> <<"Unsupported string table update with dictionary.">>]
  ELSE LET t == tables[m.tableID + 1]
           U == updateFrom(Loop(t.entries, <<>>, 0 - 1, start + 1, <<>>, 0),
                           t, m.entries, 1)
       IN  [tables |-> [tables EXCEPT ![m.tableID + 1].entries = U.entries],
            aborted |-> U.aborted, reached |-> U.cursor, history |-> U.history,
            warned |-> U.warned]

SSvcCreateStringTable == 12
SSvcUpdateStringTable == 13

\* an entry that sends its name in full
Full(next, index, string, hasData) ==
  Entry(next, index, TRUE, FALSE, 0, 0, string, hasData, 1)

\* an entry that sends no name
Unnamed(next, index, hasData) ==
  Entry(next, index, FALSE, FALSE, 0, 0, <<>>, hasData, 1)

\* an entry whose name is compressed against the history
Compressed(next, index, historyIndex, substringLength, string) ==
  Entry(next, index, TRUE, TRUE, historyIndex, substringLength, string, TRUE, 1)

\* 33 names at index 0, then a name compressed against the oldest name kept
LongUpdate ==
  [k \in 1..34 |-> IF k <= 33 THEN Full(FALSE, 0, <<64 + k>>, FALSE)
                   ELSE Compressed(FALSE, 0, 0, 1, <<33>>)]

StringInputs ==
  [tables    |-> {<<>>,
                  <<[name |-> "downloadables", entries |-> <<>>, maxEntries |-> 8,
                     userDataSize |-> 0, userDataSizeBits |-> 0]>>,
                  <<[name |-> "downloadables",
                     entries |-> <<StringTableEntry("downloadables", <<97>>),
                                   StringTableEntry("downloadables", <<98, 98>>)>>,
                     maxEntries |-> 8, userDataSize |-> 0, userDataSizeBits |-> 0],
                    [name |-> "Scenes", entries |-> <<StringTableEntry("Scenes", <<>>)>>,
                     maxEntries |-> 4, userDataSize |-> 1, userDataSizeBits |-> 4]>>,
                  <<NewStringTable("Scenes")>>},
   creations |-> {Creation("Scenes", 4, 0, TRUE, 1, 4),
                  Creation("downloadables", 8, 24, FALSE, 0, 0)},
   tableIDs  |-> {0, 1},
   lengths   |-> {8, 400},
   leads     |-> {<<>>,
                  <<Full(TRUE, 0, <<97, 98>>, TRUE)>>,
                  <<Full(TRUE, 0, <<97, 98>>, FALSE)>>,
                  <<Unnamed(TRUE, 0, TRUE)>>,
                  <<Full(TRUE, 0, <<>>, TRUE), Full(TRUE, 0, <<97, 98, 99>>, TRUE)>>},
   probes    |-> {Compressed(next, 1, h, l, string) :
                    next \in BOOLEAN, h \in {0, 1}, l \in {0, 2, 3},
                    string \in {<<>>, <<100>>}}
                  \cup {Full(TRUE, 0, <<101>>, TRUE), Full(FALSE, 5, <<101>>, TRUE),
                        Unnamed(FALSE, 0, TRUE)},
   others    |-> {Updating(0, 40, TRUE, <<Full(TRUE, 0, <<97>>, TRUE)>>),
                  Updating(7, 40, FALSE, <<Full(TRUE, 0, <<97>>, TRUE)>>),
                  Updating(0, 3000, FALSE, LongUpdate)}]

UpdateMessages(I) ==
  {Updating(tableID, dataLength, FALSE, Append(lead, probe)) :
     tableID \in I.tableIDs, dataLength \in I.lengths, lead \in I.leads,
     probe \in I.probes} \cup I.others

\* everything of the session that a string table message leaves alone
unreadVars == <<events, blobCount, messages, tick, lastTick, pc, result, pe, cmdQueue,
                calls, finishCalls, ctorReturned, stopAsked, schema>>

\* NetSvcMessage.fromID case 12
SubCreateStringTable(I) ==
  /\ MoreSubs
  /\ Len(pkt.subs) < MaxSubs
  /\ \E m \in I.creations :
       LET start == cursor + SubIdBits + CreationBits(m)
       IN  /\ stringTables' = createStringTable(stringTables, m)
           /\ cursor' = start + m.dataLength
           /\ io' = [op |-> "SvcCreateStringTable", message |-> m, start |-> start,
                     dataLength |-> m.dataLength, reached |-> start, aborted |-> 0]
  /\ PushSub(Sub(SSvcCreateStringTable, <<>>))
  /\ UNCHANGED <<bytes, writes, target, setResult, log, unreadVars, storeVars>>

\* NetSvcMessage.fromID case 13
SubUpdateStringTable(I) ==
  /\ MoreSubs
  /\ Len(pkt.subs) < MaxSubs
  /\ \E m \in UpdateMessages(I) :
       LET start == cursor + SubIdBits + UpdatingBits(m)
           made == updateStringTable(stringTables, m, start)
       IN  /\ stringTables' = made.tables
           /\ cursor' = SetCursor(made.reached, start + m.dataLength)
           /\ log' = log \o made.warned
           /\ io' = [op |-> "SvcUpdateStringTable", message |-> m, start |-> start,
                     dataLength |-> m.dataLength, reached |-> made.reached,
                     aborted |-> made.aborted, history |-> made.history,
                     looped |-> made.warned = <<>> \/ made.aborted > 0]
  /\ PushSub(Sub(SSvcUpdateStringTable, <<>>))
  /\ UNCHANGED <<bytes, writes, target, setResult, unreadVars, storeVars>>

InitStrings ==
  /\ events = {}
  /\ blobCount = 1
  /\ cursor = HeaderBits + MsgHeaderBits + PacketPrefixBits
  /\ messages = <<>>
  /\ tick = 0
  /\ lastTick = 0
  /\ entities = Null
  /\ ents = <<>>
  /\ eprops = <<>>
  /\ baselines = [length |-> 0, at |-> <<>>]
  /\ schema = Null
  /\ stringTables \in StringInputs.tables
  /\ pc = "packet"
  /\ result = "none"
  /\ pkt = [type |-> TPacket, dataEnd |-> cursor + 8000, subs |-> <<>>]
  /\ pe = Null
  /\ cmdQueue = <<>>
  /\ calls = <<>>
  /\ finishCalls = <<>>
  /\ ctorReturned = FALSE
  /\ stopAsked = FALSE
  /\ log = <<>>
  /\ NoRewrite

NextStrings ==
  \/ SubCreateStringTable(StringInputs)
  \/ SubUpdateStringTable(StringInputs)

SpecStrings == InitStrings /\ [][NextStrings]_vars

\* the entry whose name the history of an update holds at historyIndex when
\* entry i is read: the history keeps the names of the last 32 entries
Referred(i, historyIndex) ==
  (IF i - 1 > 32 THEN i - 1 - 32 ELSE 0) + historyIndex + 1

\* the name entry i of an update stands for
RECURSIVE NameOf(_, _)
NameOf(es, i) ==
  IF ~es[i].named THEN <<>>
  ELSE IF es[i].compressed
    THEN IF Referred(i, es[i].historyIndex) < i
           THEN SubSeq(NameOf(es, Referred(i, es[i].historyIndex)), 1,
                       es[i].substringLength) \o es[i].string
           ELSE es[i].string
  ELSE es[i].string

\* every compressed entry refers to a name already seen in the update, and
\* takes no more characters than that name has
RECURSIVE RefersToSeen(_, _)
RefersToSeen(es, i) ==
  IF i > Len(es) THEN TRUE
  ELSE /\ (es[i].named /\ es[i].compressed) =>
            /\ Referred(i, es[i].historyIndex) < i
            /\ es[i].substringLength <= Len(NameOf(es, Referred(i, es[i].historyIndex)))
       /\ RefersToSeen(es, i + 1)

\* no compressed entry refers to an empty name
RefersToNonEmpty(es) ==
  \A i \in 1..Len(es) :
    (es[i].named /\ es[i].compressed /\ Referred(i, es[i].historyIndex) < i)
      => NameOf(es, Referred(i, es[i].historyIndex)) # <<>>

\* the update with every compressed name sent in full
Uncompressed(m) ==
  [m EXCEPT !.entries =
     [i \in 1..Len(m.entries) |->
        IF m.entries[i].named /\ m.entries[i].compressed
          THEN [m.entries[i] EXCEPT !.compressed = FALSE,
                                    !.string = NameOf(m.entries, i)]
          ELSE m.entries[i]]]

UpdateStep ==
  /\ Len(pkt'.subs) = Len(pkt.subs) + 1
  /\ io'.op = "SvcUpdateStringTable"

SameAsUncompressed ==
  stringTables' =
    updateStringTable(stringTables, Uncompressed(io'.message), io'.start).tables

\* C21: an update whose compressed entries refer to names already seen in the
\* update, an empty name included, leaves the tables as the same update with
\* those names sent in full leaves them.
C21_CompressedAsFull ==
  [][(UpdateStep /\ RefersToSeen(io'.message.entries, 1)) => SameAsUncompressed]_vars

\* the second entry of the update was compressed against the first name, "ab",
\* took its two characters and added "d": the entry "abd" is in the table
C21_Witness ==
  /\ io # Null
  /\ io.op = "SvcUpdateStringTable"
  /\ io.aborted = 0
  /\ Len(io.message.entries) = 2
  /\ io.message.entries[2].compressed
  /\ io.message.entries[2].substringLength = 2
  /\ NameOf(io.message.entries, 1) = <<97, 98>>
  /\ NameOf(io.message.entries, 2) = <<97, 98, 100>>
  /\ Len(stringTables) >= 1
  /\ \E k \in 1..Len(stringTables[1].entries) :
       stringTables[1].entries[k].entryName = <<97, 98, 100>>

\* C21 for the names that are not empty: an update whose compressed entries
\* refer to non-empty names already seen leaves the tables as the same update
\* with those names sent in full leaves them.
C21_CompressedAsFullNonEmpty ==
  [][(/\ UpdateStep
      /\ RefersToSeen(io'.message.entries, 1)
      /\ RefersToNonEmpty(io'.message.entries)) => SameAsUncompressed]_vars

\* the update was given up at one of its entries
Aborted == UpdateStep /\ io'.aborted > 0

\* the update cut before the entry it was given up at
WellFormedPart(m, k) ==
  [m EXCEPT !.entries = SubSeq(m.entries, 1, k - 1), !.changedEntries = k - 1]

\* C22: an update that is given up at a malformed entry leaves every string
\* table as it was before the message, also when earlier entries of the
\* message were well-formed.
C22_AbortedLeavesTables == [][Aborted => stringTables' = stringTables]_vars

\* C22 as the code has it: an update that is given up at a malformed entry
\* leaves the tables as its well-formed entries before that entry leave them:
\* no entry is stored for the malformed entry or after it, and no other table
\* is changed.
C22_AbortedKeepsWellFormedPart ==
  [][Aborted =>
       /\ stringTables' =
            updateStringTable(stringTables,
                              WellFormedPart(io'.message, io'.aborted), io'.start).tables
       /\ Len(stringTables') = Len(stringTables)
       /\ \A k \in 1..Len(stringTables) :
            k # io'.message.tableID + 1 => stringTables'[k] = stringTables[k]
       /\ Len(stringTables'[io'.message.tableID + 1].entries)
            <= Len(stringTables[io'.message.tableID + 1].entries) + io'.aborted - 1]_vars

\* the first entry of the update stored "ab" in the first table, and the
\* second entry took three characters of that name: the update was given up,
\* "ab" is in the table, and the second table is as it was
C22_Witness ==
  /\ io # Null
  /\ io.op = "SvcUpdateStringTable"
  /\ io.aborted = 2
  /\ io.message.tableID = 0
  /\ io.message.entries[1].hasData
  /\ io.message.entries[2].compressed
  /\ io.message.entries[2].substringLength = 3
  /\ NameOf(io.message.entries, 1) = <<97, 98>>
  /\ Len(stringTables) = 2
  /\ stringTables[1].entries[1].entryName = <<97, 98>>
  /\ Len(stringTables[2].entries) = 1
  /\ log # <<>>

(***************************************************************************)
(* Array-valued properties of baselines and entities.                      *)
(***************************************************************************)
\* the property objects a baseline holds
BaselineHeld(b) ==
  {baselines.at[b].entityProperties[k] :
     k \in DOMAIN baselines.at[b].entityProperties} \ {Hole}

\* the property objects an entity holds
EntityHeld(e) == {ents[e].properties[k] : k \in DOMAIN ents[e].properties} \ {Hole}

\* those of the objects whose value is an array
Arrays(held) == {id \in held : eprops[id].kind = "array"}

\* what a list of property objects reads as: the value at every index
ValuesOf(H, properties) ==
  [k \in DOMAIN properties |->
     IF properties[k] = Hole THEN <<>> ELSE H[properties[k]].value]

\* the entity that the last update of the snapshot was applied to
Updated == IF pe # Null /\ Has(entities, pe.index) THEN {entities.at[pe.index]} ELSE {}

C24_OnlyHeaderAtReturn ==
  /\ [][(~ctorReturned /\ ctorReturned') =>
          /\ messages' = <<>>
          /\ cursor' = HeaderBits
          /\ entities' = Null
          /\ calls' = <<>>]_vars
  /\ [][~ctorReturned => messages' = messages /\ calls' = calls]_vars

\* the constructor has returned with a message parsed and a hook invoked
C24_Witness ==
  /\ ctorReturned
  /\ pc = "awaitTick"
  /\ Len(messages) = 1
  /\ Len(calls) = 1
  /\ cursor > HeaderBits

(***************************************************************************)
(* The invocations of onTick and onCommand.                                *)
(***************************************************************************)
OnTicks == SelectSeq(calls, LAMBDA c : c.hook = "onTick")

\* the tick seen at the last onTick invocation, 0 before the first
SeenTick == IF OnTicks = <<>> THEN 0 ELSE OnTicks[Len(OnTicks)].tick

\* the step invokes the hook
Invokes(hook) ==
  /\ Len(calls') = Len(calls) + 1
  /\ calls'[Len(calls')].hook = hook

\* C25: with an onTick hook, the step after a message is parsed invokes
\* onTick exactly when the tick differs from the tick seen at the previous
\* onTick invocation (0 before the first), and no other step invokes it; no
\* message has two onTick invocations, an onTick invocation comes before every
\* onCommand invocation of its message, and no two consecutive onTick
\* invocations see the same tick.
C25_OnTickPerTick ==
  /\ [][(pc = "parsed" /\ "onTick" \in events) =>
          (Invokes("onTick") <=> tick # SeenTick)]_vars
  /\ [][Invokes("onTick") => pc = "parsed" /\ messages' = messages]_vars
  /\ [](\A i, j \in DOMAIN calls :
          (calls[i].hook = "onTick" /\ calls[i].message = calls[j].message /\ i # j)
          => (calls[j].hook = "onCommand" /\ i < j))
  /\ [](\A k \in DOMAIN OnTicks :
          k + 1 \in DOMAIN OnTicks => OnTicks[k].tick # OnTicks[k + 1].tick)

\* onTick has been invoked for two messages, and for one of them onCommand
\* after it
C25_Witness ==
  /\ Len(OnTicks) >= 2
  /\ \E i \in DOMAIN calls :
       /\ i + 1 \in DOMAIN calls
       /\ calls[i].hook = "onTick"
       /\ calls[i + 1].hook = "onCommand"
       /\ calls[i].message = calls[i + 1].message

OnCommands == SelectSeq(calls, LAMBDA c : c.hook = "onCommand")

\* what onCommand was handed, in the order of the invocations
Handed == [k \in DOMAIN OnCommands |-> OnCommands[k].arg]

\* name + " " + value for every convar of every NetSetConVar of the packet, in
\* the order of the stream
RECURSIVE EveryConVar(_)
EveryConVar(subs) ==
  IF subs = <<>> THEN <<>>
  ELSE LET sub == Head(subs)
           own == IF sub.id = SNetSetConVar
                  THEN [k \in DOMAIN sub.convars |->
                          sub.convars[k].name \o " " \o sub.convars[k].value]
                  ELSE <<>>
       IN  own \o EveryConVar(Tail(subs))

\* the commands fired and the convars changed in the messages, in the order
\* of the stream
RECURSIVE EveryCommand(_)
EveryCommand(ms) ==
  IF ms = <<>> THEN <<>>
  ELSE LET message == Head(ms)
           own == IF message.type = TConsoleCmd THEN <<message.command>>
                  ELSE IF IsPacket(message) THEN EveryConVar(message.subs)
                  ELSE <<>>
       IN  own \o EveryCommand(Tail(ms))

\* the commands the driver hands to onCommand, message by message
RECURSIVE DriverCommands(_)
DriverCommands(ms) ==
  IF ms = <<>> THEN <<>> ELSE CommandsOf(Head(ms)) \o DriverCommands(Tail(ms))

\* the session has run to its end with an onCommand hook and no hook has
\* stopped it
RanThrough == pc \in {"settled", "done"} /\ result = "true" /\ "onCommand" \in events

\* C26: once a session with an onCommand hook has run to its end with no hook
\* stopping it, onCommand has been invoked exactly once, in stream order, for
\* every console-command message and for every convar of every set-convar
\* sub-message of every packet.
C26_EveryCommandOnce == RanThrough => Handed = EveryCommand(messages)

\* C26, for the first set-convar sub-message of every packet: once a session
\* with an onCommand hook has run to its end with no hook stopping it,
\* onCommand has been invoked exactly once, in stream order, for every
\* console-command message and for every convar of the first set-convar
\* sub-message of every packet.
C26_FirstSetConVarOnce == RanThrough => Handed = DriverCommands(messages)

\* a session has run to its end over a packet with two set-convar
\* sub-messages
C26_Witness ==
  /\ RanThrough
  /\ \E n \in DOMAIN messages :
       /\ IsPacket(messages[n])
       /\ Len(messages[n].subs) = 2
       /\ messages[n].subs[1].id = SNetSetConVar
       /\ messages[n].subs[2].id = SNetSetConVar
  /\ Handed # <<>>

(***************************************************************************)
(* The session over the messages that carry their length.                  *)
(***************************************************************************)
LengthInputs ==
  [ payloads      |-> {16},
    userCmds      |-> {{}, {"tickCount", "weaponSelect", "weaponSubtype"}},
    schemas       |-> {SchemaA},
    tables        |-> { [name |-> "instancebaseline",
                         entries |-> <<BaselineEntry(0, <<Prop(0, <<1>>),
                                                          Prop(1, <<1, 1>>)>>)>>],
                        [name |-> "userinfo", entries |-> <<>>] },
    packetTypes   |-> {TSignOn, TPacket},
    packetBytes   |-> {32},
    badSubIds     |-> {34},
    deltaFroms    |-> {0},
    updateCounts  |-> {0, 1},
    peBits        |-> {160},
    gaps          |-> {0, 2049},
    tableIDs      |-> {0, 1},
    serials       |-> {1},
    propLists     |-> { <<>>, <<Prop(1, <<2, 2>>)>> },
    deletionLists |-> { <<>> },
    creations     |-> {Creation("downloadables", 8, 24, FALSE, 0, 0)},
    lengths       |-> {8, 400},
    leads         |-> {<<>>},
    probes        |-> {Full(TRUE, 0, <<101>>, TRUE), Compressed(TRUE, 1, 0, 0, <<>>)},
    others        |-> {Updating(0, 40, TRUE, <<Full(TRUE, 0, <<97>>, TRUE)>>)} ]

NextLengths ==
  \/ LoopExit
  \/ ParseUserCmd(LengthInputs)
  \/ ParseDataTables(LengthInputs)
  \/ ParseStringTables(LengthInputs)
  \/ PacketBegin(LengthInputs)
  \/ SubCreateStringTable(LengthInputs)
  \/ SubUpdateStringTable(LengthInputs)
  \/ SubUnknown(LengthInputs)
  \/ PEBegin(LengthInputs)
  \/ PEOverflow(LengthInputs)
  \/ PEDelta(LengthInputs)
  \/ PEEnter(LengthInputs)
  \/ PELeave(LengthInputs)
  \/ PEEnd(LengthInputs)
  \/ PacketEnd
  \/ AfterParse
  \/ Finish
  \/ ConstructorReturn

SpecLengths == InitEntities /\ [][NextLengths]_vars

\* the step ends the parser of a message of one of the types
EndsMessage(types) ==
  /\ Len(messages') = Len(messages) + 1
  /\ messages'[Len(messages')].type \in types

\* the step ends the parser of a sub-message with one of the ids
EndsSub(ids) ==
  /\ pc \in {"packet", "entities"}
  /\ pc' = "packet"
  /\ Len(pkt'.subs) = Len(pkt.subs) + 1
  /\ pkt'.subs[Len(pkt'.subs)].id \in ids

\* C28: the step that ends the parser of a Packet or SignOn, DataTables,
\* StringTables or UserCmd message, or of a create-string-table,
\* update-string-table or packet-entities sub-message, leaves the cursor at
\* the start of the payload plus the declared length, wherever the reading of
\* the payload stopped.
C28_CursorAtDeclaredEnd ==
  /\ [][EndsMessage({TPacket, TSignOn}) => cursor' = pkt.dataEnd]_vars
  /\ [][(pc = "loop" /\ pc' = "packet") =>
          \E n \in LengthInputs.packetBytes : pkt'.dataEnd = cursor' + (n * 8)]_vars
  /\ [][EndsMessage({TDataTables, TStringTables, TUserCmd}) =>
          /\ io'.op \in {"DataTablesMessage", "StringTablesMessage", "UserCmdMessage"}
          /\ cursor' = io'.start + io'.dataLength]_vars
  /\ [][EndsSub({SSvcCreateStringTable, SSvcUpdateStringTable, SSvcPacketEntities}) =>
          /\ io'.op \in {"SvcCreateStringTable", "SvcUpdateStringTable",
                         "SvcPacketEntities"}
          /\ cursor' = io'.start + io'.dataLength]_vars

\* an update of a string table has stopped on a warning before the declared
\* end, and the cursor is at the declared end
C28_Witness ==
  /\ pc = "packet"
  /\ pkt.subs # <<>>
  /\ pkt.subs[Len(pkt.subs)].id = SSvcUpdateStringTable
  /\ io.aborted > 0
  /\ io.reached < io.start + io.dataLength
  /\ cursor = io.start + io.dataLength

(***************************************************************************)
(* The slots a snapshot visits.                                            *)
(***************************************************************************)
\* the gaps as they are encoded: 0, 2048, 2049 and, with all 34 bits set, -1
EncodedGaps ==
  { <<0, 0, 0>>, <<0, 2, 128>>, <<1, 2, 128>>, <<15, 3, 268435455>> }

SlotInputs ==
  [ payloads      |-> {16},
    schemas       |-> {SchemaA},
    tables        |-> { [name |-> "instancebaseline",
                         entries |-> <<BaselineEntry(0, <<Prop(0, <<1>>)>>)>>] },
    packetTypes   |-> {TSignOn},
    packetBytes   |-> {32},
    deltaFroms    |-> {0},
    updateCounts  |-> {0, 1, 2},
    peBits        |-> {160},
    gaps          |-> {nextBitInt(e[1], e[2], e[3]) : e \in EncodedGaps},
    tableIDs      |-> {0},
    serials       |-> {1},
    propLists     |-> { <<>>, <<Prop(0, <<2>>)>> },
    deletionLists |-> { <<>> } ]

NextSlots ==
  \/ LoopExit
  \/ ParseDataTables(SlotInputs)
  \/ ParseStringTables(SlotInputs)
  \/ PacketBegin(SlotInputs)
  \/ PEBegin(SlotInputs)
  \/ PEOverflow(SlotInputs)
  \/ PEDelta(SlotInputs)
  \/ PEEnter(SlotInputs)
  \/ PELeave(SlotInputs)
  \/ PEEnd(SlotInputs)
  \/ PacketEnd
  \/ AfterParse
  \/ Finish
  \/ ConstructorReturn

SpecSlots == InitEntities /\ [][NextSlots]_vars

\* C29: no update at a slot index of 2048 or more is applied, the store holds
\* no entity at a slot index of 2048 or more, and its length stays 2048.
C29_StoreWithinCapacity ==
  /\ [][AppliesUpdate => pe'.index < 2048]_vars
  /\ [](entities # Null =>
          /\ entities.length = 2048
          /\ \A i \in DOMAIN entities.at : i < 2048)

\* an entity has entered at slot 2048 and the store has grown
C29_Witness ==
  /\ entities # Null
  /\ Has(entities, 2048)
  /\ entities.length = 2049

\* C30: within one snapshot message every update that is applied is at a slot
\* index greater than that of the update before it.
C30_SlotsAscend == [][AppliesUpdate => pe'.index > pe.index]_vars

\* two updates of one snapshot have been applied at the same slot
C30_Witness ==
  /\ pc = "entities"
  /\ Len(pe.updates) = 2
  /\ pe.updates[1].index = pe.updates[2].index

(***************************************************************************)
(* The variable-length readers of DemoBuffer, over the bits of the blob.   *)
(***************************************************************************)
MaxReads == 2

\* a call of a reader is due: the cursor is inside the blob, and the run is
\* not at its bound
CanRead == cursor <= End /\ writes < MaxReads

\* DemoBuffer.nextBitInt at the address at: nextInt(4), nextInt(2), and
\* nextInt(4), nextByte() or nextInt(28) as the selector says
nextBitIntAt(B, at) ==
  LET ret == IntOf(getInt(B, at, 4))
      selector == IntOf(getInt(B, at + 4, 2))
      width == IF selector = 1 THEN 4 ELSE IF selector = 2 THEN 8
               ELSE IF selector = 3 THEN 28 ELSE 0
      more == IF selector = 2 THEN getByte(B, at + 6)
              ELSE IF selector = 0 THEN 0
              ELSE IntOf(getInt(B, at + 6, width))
  IN  Read(nextBitInt(ret, selector, more), at + 6 + width)

\* a reader whose next index is the last one plus what it read
indexAfter_same(lastIndex, ret) == IF ret = 4095 THEN -1 ELSE lastIndex + ret

\* lines 292-293: 0xFFF ends the sequence, anything else is a step past the
\* last index
indexAfter(lastIndex, ret) == IF ret = 4095 THEN -1 ELSE lastIndex + 1 + ret

\* DemoBuffer.nextPropertyIndex at the address at
nextPropertyIndex(B, at, lastIndex, newScheme) ==
  IF newScheme /\ getBit(B, at) = 1 THEN Read(lastIndex + 1, at + 1)
  ELSE LET a1 == IF newScheme THEN at + 1 ELSE at
       IN  IF newScheme /\ getBit(B, a1) = 1
           THEN Read(indexAfter(lastIndex, IntOf(getInt(B, a1 + 1, 3))), a1 + 1 + 3)
           ELSE LET a2 == IF newScheme THEN a1 + 1 ELSE a1
                    ret == IntOf(getInt(B, a2, 5))
                    selector == IntOf(getInt(B, a2 + 5, 2))
                    width == IF selector = 1 THEN 2 ELSE IF selector = 2 THEN 4
                             ELSE IF selector = 3 THEN 7 ELSE 0
                    more == IF selector = 0 THEN 0 ELSE IntOf(getInt(B, a2 + 7, width))
                IN  Read(indexAfter(lastIndex, ret + (more * 32)), a2 + 7 + width)

\* what readProperties hands back: the properties, the cursor, and whether it
\* stopped on a warning
PropertiesRead(properties, after, warned) ==
  [properties |-> properties, cursor |-> after, warned |-> warned]

\* EntityProperty.fromDemo for a property of type Int, the type of every
\* property of the classes read here: the arm of lines 589-590
intFromDemo(B, from, baseProperty) ==
  [property |-> baseProperty, bufferFrom |-> from,
   bufferSize |-> baseProperty.bits,
   value |-> decodeInt(B, baseProperty, from).value]

\* the one element of a set of one
The(S) == CHOOSE x \in S : TRUE

\* the loop of EntityProperty.readProperties, lines 1007-1018: each turn reads
\* an index once, and decodes the property once
RECURSIVE propertiesFrom(_, _, _, _, _, _)
propertiesFrom(B, at, flatProperties, newScheme, i, properties) ==
  The({ IF next.value = -1 THEN PropertiesRead(properties, next.cursor, FALSE)
        ELSE IF next.value < 0 \/ next.value >= Len(flatProperties)
        THEN PropertiesRead(properties, next.cursor, TRUE)
        ELSE The({ propertiesFrom(B, after, flatProperties, newScheme, next.value, read)
                   : <<after, read>> \in
                       { <<next.cursor + property.bufferSize,
                           Append(properties,
                                  [index |-> next.value, property |-> property])>>
                         : property \in {intFromDemo(B, next.cursor,
                                                     flatProperties[next.value + 1])} } })
        : next \in {nextPropertyIndex(B, at, i, newScheme)} })

\* EntityProperty.readProperties at the address at
readPropertiesAt(B, at, flatProperties) ==
  propertiesFrom(B, at + 1, flatProperties, getBit(B, at) = 1, -1, <<>>)

\* a class of n unsigned properties of 3 bits
IntClass(n) == [k \in 1..n |-> Definition("m_iHealth", "Int", {"Unsigned"}, 3, 0, 0)]

DecoderInputs ==
  [lastIndices |-> {-1, 0, 5},
   classes |-> {IntClass(2), IntClass(6)},
   blobs   |-> {Blob(0, 0, <<>>),
                Blob(1, 0, <<>>),
                Blob(0, 0, bitsOf(<<21, 2, 0, 47, 130, 240, 255, 255, 127>>)),
                Blob(1, 3, bitsOf(<<169, 0, 48, 255, 255, 63>>)),
                Blob(0, 0, bitsOf(<<195, 128, 15>>))},
   cursors |-> {0, 3, 8}]

\* DemoBuffer.nextBitInt is called at the cursor
NextBitInt ==
  /\ CanRead
  /\ LET next == nextBitIntAt(bytes, cursor)
     IN  /\ io' = [op |-> "nextBitInt", from |-> cursor, value |-> next.value]
         /\ cursor' = next.cursor
  /\ writes' = writes + 1
  /\ UNCHANGED <<bytes, target, setResult, log, parsedVars, storeVars>>

\* DemoBuffer.nextPropertyIndex is called at the cursor
NextPropertyIndex(I) ==
  /\ CanRead
  /\ \E lastIndex \in I.lastIndices, newScheme \in BOOLEAN :
       LET next == nextPropertyIndex(bytes, cursor, lastIndex, newScheme)
       IN  /\ io' = [op |-> "nextPropertyIndex", from |-> cursor,
                     lastIndex |-> lastIndex, newScheme |-> newScheme,
                     value |-> next.value]
           /\ cursor' = next.cursor
  /\ writes' = writes + 1
  /\ UNCHANGED <<bytes, target, setResult, log, parsedVars, storeVars>>

\* EntityProperty.readProperties is called at the cursor
ReadProperties(I) ==
  /\ CanRead
  /\ \E flatProperties \in I.classes :
       LET read == readPropertiesAt(bytes, cursor, flatProperties)
       IN  /\ io' = [op |-> "readProperties", from |-> cursor,
                     flatProperties |-> flatProperties,
                     properties |-> read.properties, warned |-> read.warned]
           /\ cursor' = read.cursor
           /\ log' = IF read.warned
                     THEN Append(log, "Overflowed expected entity property count.")
                     ELSE log
  /\ writes' = writes + 1
  /\ UNCHANGED <<bytes, target, setResult, parsedVars, storeVars>>

\* an array definition: arrayElements is the declared number of elements
ArrayDefinition(name, arrayElements) ==
  [name |-> name, type |-> "Array", flags |-> {}, arrayElements |-> arrayElements]

\* a count of as many bits as tell the numbers below arrayElements apart
arrayCountBits_ceil(arrayElements) ==
  CHOOSE w \in 0..31 : arrayElements <= 2^w /\ (w = 0 \/ 2^(w - 1) < arrayElements)

\* line 770: highestBitIndex(arrayElements) + 1
arrayCountBits(arrayElements) == highestBitIndex(arrayElements) + 1

\* one element of the array: decodeInt or decodeFloat, by the type of the
\* element definition (lines 775-788)
decodeElement(B, baseArrayProperty, from) ==
  CASE baseArrayProperty.type = "Int" -> decodeInt(B, baseArrayProperty, from)
    [] baseArrayProperty.type = "Float" -> decodeFloat(B, baseArrayProperty, from)

\* the loops of lines 777-779 and 784-786: count elements are read and pushed
RECURSIVE elementsFrom(_, _, _, _, _)
elementsFrom(B, at, baseArrayProperty, count, array) ==
  IF Len(array) >= count THEN Decoded(array, at)
  ELSE The({ elementsFrom(B, read.cursor, baseArrayProperty, count,
                          Append(array, read.value))
             : read \in {decodeElement(B, baseArrayProperty, at)} })

Thrown(text) == [threw |-> text]

Threw(read) == "threw" \in DOMAIN read

\* EntityProperty.decodeArray at the address from, for element definitions
\* of type Int or Float; an element definition of another type than the five
\* value types is the default of the switch
decodeArray(B, baseProperty, baseArrayProperty, from) ==
  IF baseArrayProperty = Null THEN Thrown("Invalid array property definition.")
  ELSE IF baseArrayProperty.type \in {"Array", "DataTable"}
    THEN Thrown("Unknown array property type")
  ELSE The({ elementsFrom(B, from + countBits, baseArrayProperty,
                          IntOf(getInt(B, from, countBits)), <<>>)
             : countBits \in {arrayCountBits(baseProperty.arrayElements)} })

ArrayInputs ==
  [arrayElements |-> {1, 2, 3, 4, 5, 7, 8, 9, 16, 100, 512, 1023},
   elements |-> {Definition("e", "Int", {"Unsigned"}, 3, 0, 0),
                 Definition("e", "Float", {"Coord"}, 0, 0, 0),
                 Nested("toB", {}, "B"),
                 Null}]

\* the longest array read
MaxElements == 16

\* EntityProperty.decodeArray is called at the cursor, on a count of
\* MaxElements or less; where it throws the cursor is where the call found it
DecodeArray(I) ==
  /\ CanRead
  /\ \E n \in I.arrayElements, baseArrayProperty \in I.elements :
       LET read == decodeArray(bytes, ArrayDefinition("arr", n), baseArrayProperty, cursor)
       IN  /\ IntOf(getInt(bytes, cursor, arrayCountBits(n))) <= MaxElements
           /\ IF Threw(read)
              THEN /\ io' = [op |-> "decodeArray", from |-> cursor, threw |-> TRUE]
                   /\ cursor' = cursor
              ELSE /\ io' = [op |-> "decodeArray", from |-> cursor, threw |-> FALSE,
                             arrayElements |-> n, element |-> baseArrayProperty,
                             value |-> read.value]
                   /\ cursor' = read.cursor
  /\ writes' = writes + 1
  /\ UNCHANGED <<bytes, target, setResult, log, parsedVars, storeVars>>

FloatInputs ==
  [bits |-> {1, 8, 16, 30, 31, 32},
   ranges |-> {<<0, 100>>, <<-1, 1>>}]

\* EntityProperty.decodeFloat is called at the cursor for a float with no
\* flags
DecodeFloat(I) ==
  /\ CanRead
  /\ \E bits \in I.bits, range \in I.ranges :
       LET baseProperty == Definition("m_flSpeed", "Float", {}, bits, range[1], range[2])
           read == decodeFloat(bytes, baseProperty, cursor)
       IN  /\ io' = [op |-> "decodeFloat", from |-> cursor, property |-> baseProperty,
                     value |-> read.value]
           /\ cursor' = read.cursor
  /\ writes' = writes + 1
  /\ UNCHANGED <<bytes, target, setResult, log, parsedVars, storeVars>>

InitDecoders ==
  /\ events = {}
  /\ blobCount = 0
  /\ cursor \in DecoderInputs.cursors
  /\ messages = <<>>
  /\ tick = 0
  /\ lastTick = 0
  /\ entities = Null
  /\ ents = <<>>
  /\ eprops = <<>>
  /\ baselines = [length |-> 0, at |-> <<>>]
  /\ schema = Null
  /\ stringTables = <<>>
  /\ pc = "loop"
  /\ result = "none"
  /\ pkt = Null
  /\ pe = Null
  /\ cmdQueue = <<>>
  /\ calls = <<>>
  /\ finishCalls = <<>>
  /\ ctorReturned = FALSE
  /\ stopAsked = FALSE
  /\ log = <<>>
  /\ bytes \in DecoderInputs.blobs
  /\ target = Null
  /\ setResult = "none"
  /\ writes = 0
  /\ io = Null

NextDecoders ==
  \/ NextBitInt
  \/ NextPropertyIndex(DecoderInputs)
  \/ ReadProperties(DecoderInputs)
  \/ DecodeArray(ArrayInputs)
  \/ DecodeFloat(FloatInputs)

SpecDecoders == InitDecoders /\ [][NextDecoders]_vars

\* the unsigned number that the n bits from at on spell, the first the least
RECURSIVE Spelled(_, _, _)
Spelled(B, at, n) ==
  IF n = 0 THEN 0 ELSE getBit(B, at) + (2 * Spelled(B, at + 1, n - 1))

\* the extension bits that follow a selector
ExtensionBits(selector) ==
  IF selector = 0 THEN 0 ELSE IF selector = 1 THEN 4 ELSE IF selector = 2 THEN 8 ELSE 28

BitIntRead == io # Null /\ io.op = "nextBitInt"

\* the bits the call has taken are the 4 value bits, the 2 selector bits and
\* the extension bits of the selector
TakesBitIntBits ==
  BitIntRead => cursor = io.from + 4 + 2 + ExtensionBits(Spelled(bytes, io.from + 4, 2))

\* the extension that the call has read
Extension == Spelled(bytes, io.from + 6, ExtensionBits(Spelled(bytes, io.from + 4, 2)))

\* C31: nextBitInt takes 4 value bits, 2 selector bits and 0, 4, 8 or 28
\* extension bits, and returns the non-negative integer low4 + 16 * extension,
\* for every bit pattern.
C31_BitIntUnsigned ==
  /\ TakesBitIntBits
  /\ BitIntRead =>
       /\ io.value >= 0
       /\ ToDouble(io.value) =
            Double(Extension \div 4096,
                   ((Extension % 4096) * 16) + Spelled(bytes, io.from, 4))

\* C31, for the patterns whose last extension bit is clear: nextBitInt takes
\* 4 value bits, 2 selector bits and 0, 4, 8 or 28 extension bits; it returns
\* the non-negative integer low4 + 16 * extension when the extension is below
\* 2^27, and that integer less 2^32 otherwise.
C31_BitIntSigned ==
  /\ TakesBitIntBits
  /\ BitIntRead =>
       IF Extension < 134217728
       THEN io.value = Spelled(bytes, io.from, 4) + (16 * Extension)
       ELSE /\ io.value < 0
            /\ Low31(io.value) = Spelled(bytes, io.from, 4) + (16 * (Extension - 134217728))

\* a bit-int of 34 set bits has been read as -1
C31_Witness ==
  /\ BitIntRead
  /\ Spelled(bytes, io.from + 4, 2) = 3
  /\ Extension = 268435455
  /\ io.value = -1

IndexRead == io # Null /\ io.op = "nextPropertyIndex"

PropertiesWereRead == io # Null /\ io.op = "readProperties"

\* the index that stopped readProperties: the one read after the last
\* property, or the first one
StoppedAt ==
  LET n == Len(io.properties)
      last == IF n = 0 THEN io.from + 1
              ELSE io.properties[n].property.bufferFrom
                     + io.properties[n].property.bufferSize
  IN  nextPropertyIndex(bytes, last, IF n = 0 THEN -1 ELSE io.properties[n].index,
                        getBit(bytes, io.from) = 1)

\* C32: nextPropertyIndex hands back -1 or an index greater than the last
\* one, in the new and in the legacy encoding; the properties readProperties
\* hands back have strictly increasing indices below the number of flattened
\* properties, and the reading has stopped at -1 or at the first index
\* outside the list.
C32_IndicesIncrease ==
  /\ IndexRead => (io.value = -1 \/ io.value > io.lastIndex)
  /\ PropertiesWereRead =>
       /\ \A k \in DOMAIN io.properties :
            /\ io.properties[k].index >= 0
            /\ io.properties[k].index < Len(io.flatProperties)
            /\ k > 1 => io.properties[k].index > io.properties[k - 1].index
       /\ cursor = StoppedAt.cursor
       /\ IF io.warned
          THEN StoppedAt.value >= Len(io.flatProperties)
          ELSE StoppedAt.value = -1

\* two properties have been read and then an index outside the list
C32_Witness ==
  /\ PropertiesWereRead
  /\ Len(io.properties) = 2
  /\ io.properties[2].index > io.properties[1].index + 1
  /\ io.warned

\* the legacy encoding has handed back an index well past the last one
C32_WitnessLegacy ==
  /\ IndexRead
  /\ ~io.newScheme
  /\ io.value > io.lastIndex + 32

(***************************************************************************)
(* Tables with array properties: the table A of the class holds up to      *)
(* three of a value, an array element, an array, the table B, a table that *)
(* the schema lacks, and an exclusion.                                     *)
(***************************************************************************)
Element(name) == Property("Int", name, {"InsideArray"}, 0)

ArrayOf(name) == Property("Array", name, {}, 0)

ArrayPool ==
  {Value("x"), Element("e"), ArrayOf("arr"), Nested("toB", {}, "B"),
   Nested("toB", {"Collapsible"}, "B"), Nested("toZ", {}, "Z"), Excluding("B", "y")}

\* the lists of one to three definitions of the pool, each at most once
ArrayLists ==
  UNION {{properties \in [1..n -> ArrayPool] :
            \A i, j \in 1..n : properties[i] = properties[j] => i = j} : n \in 1..3}

ArraySchemas ==
  {[dataTables |->
      [t \in {"A", "B"} |->
         IF t = "A" THEN DataTable("A", properties)
         ELSE DataTable("B", <<Element("f"), ArrayOf("barr"), Value("y")>>)],
    serverClasses |-> <<ServerClass(0, "CA", "A")>>] : properties \in ArrayLists}

SpecArrays == InitTables(ArraySchemas) /\ [][FromDemo]_vars

\* the places of the table that hold the definition
PlacesOf(table, property) ==
  {i \in 1..Len(table.properties) : table.properties[i] = property}

OfArrayType(flatProperty) == flatProperty.baseProperty.type = "Array"

\* C33: every array property of a flattened list is paired with the
\* definition just before it in its own table as its element definition,
\* whatever the name or the flags of that definition.
C33_ArrayPairedByPosition ==
  Sorted =>
    \A k \in 1..Len(io.sorted) :
      LET output == Output(io.sorted[k])
      IN  \A j \in 1..Len(output) :
            OfArrayType(output[j]) =>
              LET table == schema.dataTables[output[j].table]
                  places == PlacesOf(table, output[j].baseProperty)
              IN  /\ places # {}
                  /\ \A i \in places :
                       /\ i > 1
                       /\ output[j].baseArrayProperty = table.properties[i - 1]

\* the array arr of the list is paired with a definition that is not flagged
\* as an array element: the value x or a nested table, the one before it
C33_Witness ==
  /\ Sorted
  /\ Len(io.sorted) = 1
  /\ \E j \in 1..Len(Output(io.sorted[1])) :
       LET flatProperty == Output(io.sorted[1])[j]
       IN  /\ OfArrayType(flatProperty)
           /\ flatProperty.table = "A"
           /\ ~hasFlag(flatProperty.baseArrayProperty, "InsideArray")
           /\ schema.dataTables["A"].properties[1] # flatProperty.baseArrayProperty

\* the definition is skipped by the walk of line 255: it is flagged Exclude
\* or InsideArray, or the exclusion set of the class names it
Skipped(excludes, tableName, property) ==
  \/ hasFlag(property, "Exclude")
  \/ hasFlag(property, "InsideArray")
  \/ ExcludePair(tableName, property.name) \in Elements(excludes)

\* the tables the walk enters from the table t: the tables of the schema
\* that its nested-table properties name, those skipped left out
Enters(D, excludes, t) ==
  {D[t].properties[i].excludeName : i \in
     {k \in 1..Len(D[t].properties) :
        /\ D[t].properties[k].type = "DataTable"
        /\ ~Skipped(excludes, t, D[t].properties[k])
        /\ D[t].properties[k].excludeName \in DOMAIN D}}

RECURSIVE EnteredWithin(_, _, _, _)
EnteredWithin(D, excludes, S, n) ==
  IF n = 0 THEN S
  ELSE EnteredWithin(D, excludes, S \cup UNION {Enters(D, excludes, t) : t \in S}, n - 1)

\* the tables of the tree of the class: its root table and the tables the
\* walk enters from there
TreeOf(D, excludes, root) == EnteredWithin(D, excludes, {root}, Cardinality(DOMAIN D))

\* the list holds the definition at i of the table t
InList(flatProperties, t, property) ==
  \E j \in 1..Len(flatProperties) :
    /\ flatProperties[j].table = t
    /\ flatProperties[j].baseProperty = property

\* no list holds a definition that is skipped or a nested-table property
NothingSkippedListed ==
  Sorted =>
    \A k \in 1..Len(io.sorted) :
      LET output == Output(io.sorted[k])
      IN  \A j \in 1..Len(output) :
            /\ ~Skipped(io.sorted[k].excludes, output[j].table, output[j].baseProperty)
            /\ output[j].baseProperty.type # "DataTable"

\* the leaf definitions of the tree of the class, but the ones left out,
\* are in its list
LeavesListedBut(LeftOut(_, _)) ==
  Sorted =>
    \A k \in 1..Len(io.sorted) :
      LET call == io.sorted[k]
          D == schema.dataTables
      IN  \A t \in TreeOf(D, call.excludes, call.tableName) :
            \A i \in 1..Len(D[t].properties) :
              (/\ D[t].properties[i].type # "DataTable"
               /\ ~Skipped(call.excludes, t, D[t].properties[i])
               /\ ~LeftOut(D[t], i)) => InList(Output(call), t, D[t].properties[i])

NoneLeftOut(table, i) == FALSE

\* line 289: an array property with no definition before it in its table
ArrayFirst(table, i) == table.properties[i].type = "Array" /\ i = 1

NamesAbsent(D, excludes, root) ==
  {<<t, i>> \in TreeOf(D, excludes, root) \X (1..3) :
     /\ i <= Len(D[t].properties)
     /\ D[t].properties[i].type = "DataTable"
     /\ ~Skipped(excludes, t, D[t].properties[i])
     /\ D[t].properties[i].excludeName \notin DOMAIN D}

\* the table of a class of the schema names a table the schema lacks
SchemaNamesAbsent ==
  \E k \in 1..Len(schema.serverClasses) :
    /\ schema.serverClasses[k].tableName \in DOMAIN schema.dataTables
    /\ NamesAbsent(schema.dataTables,
                   gatherExcludes(schema.dataTables,
                                  schema.dataTables[schema.serverClasses[k].tableName],
                                  1, <<>>),
                   schema.serverClasses[k].tableName) # {}

\* C35: a nested-table property that names a table the schema lacks fails the
\* session: the schema is never resolved with the property passed over.
C35_AbsentTableFails == SchemaNamesAbsent => ~Sorted

\* C35 as the code has it: a nested-table property that names a table the
\* schema lacks is passed over with a warning; the class is resolved, its
\* list holds the other leaves of its tree, and the driver is still at its
\* loop, the session not ended.
C35_AbsentTablePassedOver ==
  (Sorted /\ SchemaNamesAbsent) =>
    /\ \E w \in 1..Len(log) : log[w] = "Missing excluded table"
    /\ Len(io.sorted) = Len(schema.serverClasses)
    /\ Len(schema.parserClasses) = Len(schema.serverClasses)
    /\ LeavesListedBut(ArrayFirst)
    /\ pc = "loop"
    /\ result = "none"

\* the table A holds the value x, the table Z that the schema lacks, and the
\* table B: the class is resolved, and its list holds x and the y of B
C35_Witness ==
  /\ Sorted
  /\ SchemaNamesAbsent
  /\ Len(schema.dataTables["A"].properties) = 3
  /\ schema.dataTables["A"].properties[2] = Nested("toZ", {}, "Z")
  /\ Len(io.sorted) = 1
  /\ InList(Output(io.sorted[1]), "A", Value("x"))
  /\ InList(Output(io.sorted[1]), "B", Value("y"))

ArrayRead == io # Null /\ io.op = "decodeArray" /\ ~io.threw

\* the bits that hold the numbers 0..n: one more than the place of the
\* highest set bit of n
BitsToHold(n) == CHOOSE w \in 1..32 : 2^(w - 1) <= n /\ n < 2^w

\* the least w with n <= 2^w
CeilLog2(n) == CHOOSE w \in 0..31 : n <= 2^w /\ (w = 0 \/ 2^(w - 1) < n)

\* the array read is a count of Width(arrayElements) bits and then count
\* elements of the type of the element definition, the cursor after them
ArrayReadWith(Width(_)) ==
  ArrayRead =>
    LET w == Width(io.arrayElements)
        count == Spelled(bytes, io.from, w)
    IN  /\ Len(io.value) = count
        /\ io.element.type = "Int" =>
             /\ \A k \in 1..count :
                  io.value[k] = ToDouble(Spelled(bytes, io.from + w + (3 * (k - 1)), 3))
             /\ cursor = io.from + w + (3 * count)
        /\ io.element.type = "Float" =>
             /\ \A k \in 1..Len(io.value) : DOMAIN io.value[k] = {"n", "d"}
             /\ cursor >= io.from + w + (2 * count)

\* C36: decoding an array reads a count of ceil(log2(declared elements)) bits
\* and then exactly that many elements of the type of the element definition,
\* for every declared number of elements, the powers of two among them.
C36_CountBitsCeilLog2 == ArrayReadWith(CeilLog2)

\* C36 as the code has it: decoding an array reads a count of
\* floor(log2(declared elements)) + 1 bits, the bits that hold the numbers up
\* to the declared one, and then exactly that many elements of the type of
\* the element definition.
C36_CountBitsHoldMax == ArrayReadWith(BitsToHold)

\* an array of 8 declared elements has been read with a count of 4 bits: 5
\* elements
C36_Witness ==
  /\ ArrayRead
  /\ io.arrayElements = 8
  /\ io.element.type = "Int"
  /\ io.from = 0
  /\ Spelled(bytes, 0, 4) = 5
  /\ Len(io.value) = 5
  /\ cursor = 4 + 15

(***************************************************************************)
(* The setters of float and vector properties against their decoders.      *)
(***************************************************************************)
\* the step is a SetProperty that has reached setFromFloat or setFromVector
SetsFloatOrVector ==
  /\ io' # Null
  /\ io'.op = "SetProperty"
  /\ Found(io'.name)
  /\ \/ target.property.type = "Float" /\ io'.value.kind = "number"
     \/ target.property.type \in {"Vector2", "Vector3"} /\ io'.value.kind = "Vector"

\* what the setter returns
SetterBits(B, T, value) ==
  IF T.property.type = "Float" THEN setFromFloat(B, T, value.n, 0).bits
  ELSE setFromVector(B, T, value, 0).bits

\* the addresses of the layout bits of a float decoded at from: has-integer
\* and has-fraction of a coordinate, in-bounds and has-integer of a
\* multiplayer coordinate
FloatLayout(baseProperty, from) ==
  IF \/ hasFlag(baseProperty, "Coord")
     \/ hasFlag(baseProperty, "CoordMp")
     \/ hasFlag(baseProperty, "CoordMpLp")
     \/ hasFlag(baseProperty, "CoordMpInt")
    THEN {from, from + 1}
    ELSE {}

\* the addresses of the layout bits of the property as the decode met them
LayoutBits(B, T) ==
  LET baseProperty == T.property
      x == decodeFloat(B, baseProperty, T.bufferFrom)
      y == decodeFloat(B, baseProperty, x.cursor)
  IN  IF baseProperty.type = "Float" THEN FloatLayout(baseProperty, T.bufferFrom)
      ELSE FloatLayout(baseProperty, T.bufferFrom)
             \cup FloatLayout(baseProperty, x.cursor)
             \cup (IF baseProperty.type = "Vector3" /\ ~hasFlag(baseProperty, "Normal")
                     THEN FloatLayout(baseProperty, y.cursor) ELSE {})

\* C37: a setter of a float or a vector returns the number of bits the decode
\* consumed, the bufferSize of the property, for every flag set and every
\* layout in the buffer; the layout bits keep their values, and a decode
\* after the write consumes the same bits.
C37_SetterCoversDecode ==
  [][SetsFloatOrVector =>
       /\ SetterBits(bytes, target, io'.value) = target.bufferSize
       /\ \A at \in LayoutBits(bytes, target) : getBit(bytes', at) = getBit(bytes, at)
       /\ fromDemo(bytes', target.bufferFrom, target.property).bufferSize
            = target.bufferSize]_vars

\* a coordinate with an integer and a fraction part, 22 bits, has been
\* written with -3: its sign bit is set and its integer field holds 2
C37_Witness ==
  /\ io # Null
  /\ io.op = "SetProperty"
  /\ target # Null
  /\ Found(io.name)
  /\ target.property.type = "Float"
  /\ target.property.flags = {"Coord"}
  /\ io.value = Number(-3)
  /\ target.bufferSize = 22
  /\ getBit(bytes, target.bufferFrom) = 1
  /\ getBit(bytes, target.bufferFrom + 1) = 1
  /\ getBit(bytes, target.bufferFrom + 2) = 1
  /\ IntOf(getInt(bytes, target.bufferFrom + 3, 14)) = 2

FloatRead == io # Null /\ io.op = "decodeFloat"

\* what was read is the bits, the least significant first, between the
\* bounds of the definition, the cursor after the bits
ReadsRaw ==
  FloatRead =>
    /\ cursor = io.from + io.property.bits
    /\ io.value.low = io.property.low
    /\ io.value.high = io.property.high
    /\ io.property.bits <= 30 =>
         io.value.dwInterp = ToDouble(Spelled(bytes, io.from, io.property.bits))

\* C38: a float with no flags decodes as low + (high - low) * raw /
\* (2^bits - 1), raw being the bits read as an unsigned number, and the
\* divisor is 2^bits - 1 for every declared width from 1 to 32.
C38_DivisorAllOnes ==
  /\ ReadsRaw
  /\ FloatRead => io.value.divisor = AllOnes(io.property.bits)

\* C38 as the code has it: the divisor is 2^bits - 1 for the widths up to 30;
\* it is -(2^31) - 1 for the width 31 and 0 for the width 32.
C38_DivisorOfShift ==
  /\ ReadsRaw
  /\ FloatRead =>
       io.value.divisor =
         IF io.property.bits <= 30 THEN AllOnes(io.property.bits)
         ELSE IF io.property.bits = 31 THEN Double(-32769, 65535)
         ELSE Double(0, 0)

\* 8 bits that spell 128 have been read for the range 0..100: 100 * 128 / 255
C38_Witness ==
  /\ FloatRead
  /\ io.property.bits = 8
  /\ io.value = Interpolated(0, 100, Double(0, 128), Double(0, 255))

\* 32 bits have been read, and the divisor is 0
C38_WitnessZero ==
  /\ FloatRead
  /\ io.property.bits = 32
  /\ io.value.divisor = Double(0, 0)

(***************************************************************************)
(* The name history of SvcUpdateStringTable.                               *)
(***************************************************************************)
\* an update has been read, and its loop was entered
UpdateLooped == io # Null /\ io.op = "SvcUpdateStringTable" /\ io.looped

\* the entries of the update whose names were pushed: all of them, or the
\* ones before the entry the loop was left at
Pushed == IF io.aborted > 0 THEN io.aborted - 1 ELSE Len(io.message.entries)

\* C39: the name history of an update holds at most 32 names: after n
\* entries of the message it holds the names of the last min(n, 32) of them,
\* in the order they came, the oldest dropped first; it holds no name of
\* another message.
C39_HistoryIsLast32 ==
  UpdateLooped =>
    LET kept == IF Pushed < 32 THEN Pushed ELSE 32
    IN  /\ Len(io.history) = kept
        /\ Len(io.history) <= 32
        /\ \A k \in 1..kept :
             io.history[k] = NameOf(io.message.entries, Pushed - kept + k)

\* 34 entries have been read: the history holds the names of the entries 3
\* to 34, the first of them the name of the third entry
C39_Witness ==
  /\ UpdateLooped
  /\ Pushed = 34
  /\ Len(io.history) = 32
  /\ io.history[1] = <<64 + 3>>
  /\ io.history[32] = NameOf(io.message.entries, 34)

(***************************************************************************)
(* The cursor across the messages of a blob.  The byte count of a          *)
(* UserCmdMessage is read with nextSignedInt(32), Message.ts line 343: it   *)
(* can be negative.  Every other byte count is read with nextInt(32).       *)
(***************************************************************************)
\* the byte counts a user command declares: 1, and the negative counts that
\* leave the cursor 48 bits past the type byte, on the type byte, and before it
SignedLengths == {1, -8, -14, -20}

FrameInputs == [DriverInputs EXCEPT !.payloads = {1, 16}]

SignedInputs == [DriverInputs EXCEPT !.payloads = SignedLengths]

NextFrames ==
  \/ LoopExit
  \/ ParseSyncTick
  \/ ParseStop
  \/ ParseUnknown(FrameInputs)
  \/ ParseConsoleCmd(FrameInputs)
  \/ ParseUserCmd(SignedInputs)
  \/ ParseCustomData(FrameInputs)
  \/ ParseDataTables(FrameInputs)
  \/ ParseStringTables(FrameInputs)
  \/ PacketBegin(FrameInputs)
  \/ SubNetTick(FrameInputs)
  \/ SubSetConVar(FrameInputs)
  \/ SubUnknown(FrameInputs)
  \/ PacketEnd
  \/ AfterParse
  \/ Finish
  \/ ConstructorReturn

SpecFrames == InitEntities /\ [][NextFrames]_vars

\* the message types whose parser is one step of the driver
OneStepTypes ==
  {TSyncTick, TConsoleCmd, TUserCmd, TDataTables, TStop, TCustomData, TStringTables}

\* a Packet or SignOn message is parsed over several steps: its first step
\* fixes dataEnd, the steps of its sub-messages keep it, and its last step
\* leaves the cursor there
PacketAdvances ==
  /\ [][(pc = "loop" /\ pc' = "packet") => pkt'.dataEnd >= cursor + MsgHeaderBits]_vars
  /\ [][(pc = "packet" /\ pc' = "packet") => pkt'.dataEnd = pkt.dataEnd]_vars
  /\ [][EndsMessage({TPacket, TSignOn}) => cursor' = pkt.dataEnd]_vars

\* the parse of a message of one of the types that returns leaves the cursor
\* at least the 48 bits of the header past where the parse began
Advances(types) == EndsMessage(types) => cursor' >= cursor + MsgHeaderBits

====
